---- MODULE Spec2Model ----
(***************************************************************************)
(* Scenario state machine of git-lfs-test: Runner.Execute (pkg/scenario),  *)
(* the out-of-band cancel of lfst-scenario (handleCancel), the test_runs   *)
(* table they share (pkg/database) and the processes and directories they  *)
(* act on.  Every store statement, signal and directory operation is one   *)
(* atomic step; the orchestrator and the canceller are separate processes  *)
(* whose steps interleave freely.  The Execute invocations follow one      *)
(* another: one starts when no orchestrator process is alive, while the    *)
(* external commands of earlier runs may still be running.                 *)
(***************************************************************************)
EXTENDS Integers, Sequences, FiniteSets, TLC

\* ------------------------------------------------------------------ bounds
MaxRuns == 1

\* ------------------------------------------------------- program constants
NumSteps == 7

RunIds == 1..MaxRuns
Orchs == 1..MaxRuns
\* the work directory is the configured one unless --work-dir names another
DefaultWorkDir == "/tmp/lfst"
WorkDirs == {DefaultWorkDir, "/mnt/o/lfs_test"}
Repos == {"repo1", "repo2"}
Terminal == {"completed", "failed", "cancelled"}
CancelAll == 0

VARIABLES
    runs,       \* test_runs table: run id -> row (status "none": no such row)
    nextId,     \* next AUTOINCREMENT id of test_runs
    dirs,       \* filesystem: work dir -> repo -> exists
    opc,        \* orchestrator process: position in main/Execute
    orun,       \* orchestrator: its in-memory database.TestRun
    owd,        \* orchestrator: Runner.WorkDir
    ostep,      \* orchestrator: stepNum of the loop in Execute
    ohist,      \* orchestrator: phases invoked so far, with their results
    oret,       \* orchestrator: what Execute returned
    child,      \* external command spawned by the orchestrator, maybe orphaned
    cpc,        \* canceller process: position in handleCancel
    carg,       \* canceller: cancelArg (0 stands for "all")
    cwd,        \* canceller: workDir
    cqueue,     \* canceller: runsToCanccel not yet processed (in-memory rows)
    cmarked,    \* this invocation: runs reported "marked as cancelled"
    ctargets,   \* this invocation: ids of runsToCanccel
    cstale,     \* this invocation: targets whose SIGTERM delivery failed
    cout,       \* this invocation: how it ended
    ccount      \* this invocation: the count of "Cancelled %d test run(s)"

ovars == <<opc, orun, owd, ostep, ohist, oret, child>>
cvars == <<cpc, carg, cwd, cqueue, cmarked, ctargets, cstale, cout, ccount>>
vars == <<runs, nextId, dirs, ovars, cvars>>

\* completed_at IS NULL / CompletedAt == nil
Nil == "nil"

\* ------------------------------------------------------------------- notes
NoteAuto == <<"auto", 0>>
NoteFailed(k) == <<"failed", k>>
NoteCompleted == <<"completed", 0>>
NoteCancelled == <<"cancelled", 0>>

InNotes(n, notes) == \E i \in 1..Len(notes) : notes[i] = n

\* ------------------------------------------------------------------- store
NoRow == [status |-> "none", pid |-> 0, completedAt |-> Nil, notes |-> <<>>]
NoRun == [ID |-> 0, PID |-> 0, Status |-> "none", CompletedAt |-> Nil, Notes |-> <<>>]

\* INSERT INTO test_runs (..., pid, started_at, status, notes): completed_at NULL
CreateTestRun(store, id, run) ==
    [store EXCEPT ![id] = [status |-> run.Status, pid |-> run.PID,
                           completedAt |-> Nil, notes |-> run.Notes]]

UpdateTestRunNoStatus(store, run) ==
    IF run.ID \in DOMAIN store /\ store[run.ID].status # "none"
    THEN [store EXCEPT ![run.ID] = [status |-> @.status, pid |-> run.PID,
                                    completedAt |-> run.CompletedAt,
                                    notes |-> run.Notes]]
    ELSE store

\* UPDATE test_runs SET pid, completed_at, status, notes WHERE id = run.ID
UpdateTestRun(store, run) ==
    IF run.ID \in DOMAIN store /\ store[run.ID].status # "none"
    THEN [store EXCEPT ![run.ID] = [status |-> run.Status, pid |-> run.PID,
                                    completedAt |-> run.CompletedAt,
                                    notes |-> run.Notes]]
    ELSE store

\* SELECT ... FROM test_runs WHERE id = ?
GetTestRun(store, id) ==
    [ID |-> id, PID |-> store[id].pid, Status |-> store[id].status,
     CompletedAt |-> store[id].completedAt, Notes |-> store[id].notes]

\* ---------------------------------------------------------------- processes
OrchLive == {"create", "loop", "inStep", "markFailed", "cleanup",
             "markCompleted", "terminating"}
OrchAlive(o) == opc[o] \in OrchLive

\* os.Getpid() of orchestrator o
OrchPid(o) == o

\* the process, if any, that a pid names
PidAlive(p) == p \in Orchs /\ OrchAlive(p)

\* time.Now(): a time, as opposed to the NULL of completed_at
Now == "now"

\* ------------------------------------------- state of the other components
VARIABLES
    dold,       \* CompareChecksums: the listing of the old step
    dnew,       \* CompareChecksums: the listing of the new step
    dout        \* CompareChecksums: what it returned

dvars == <<dold, dnew, dout>>

VARIABLES
    ptable,     \* checksums table of the store, in the order of its ids
    ppc,        \* Step4_SecondClone: position
    pret        \* Step4_SecondClone: what it returns

pvars == <<ptable, ppc, pret>>

\* no call has been made
NoCall == [done |-> FALSE]

DiffIdle == dold = <<>> /\ dnew = <<>> /\ dout = NoCall

VARIABLES
    jreq,       \* lfst-checksum: the run, the step and the checksums it exports
    jdata,      \* the JSON document on the way to lfst-import
    jruns,      \* the importing store: ids of its test_runs rows
    jtable,     \* the importing store: its checksums table
    jret        \* what ImportJSON returned

jvars == <<jreq, jdata, jruns, jtable, jret>>

NoData == [sent |-> FALSE]
RoundTripIdle ==
    jreq = NoData /\ jdata = NoData /\ jruns = {} /\ jtable = <<>> /\ jret = "none"

VARIABLES
    stable,     \* the store: its checksums table, in the order of its ids
    slast,      \* the last submission: step, checksums, outcome
    scount      \* submissions made

svars == <<stable, slast, scount>>

NoRecord == [ret |-> "none"]
StoreIdle == stable = <<>> /\ slast = NoRecord /\ scount = 0

VARIABLES
    mflags,     \* lfst-checksum: its flags, its configuration, os.Hostname()
    mpc,        \* lfst-checksum: position in main, or its exit status
    mmode,      \* lfst-checksum: useRemote and remoteHost
    mfail,      \* lfst-checksum: the call that returned the error
    rpc,        \* ssh running lfst-import: not started, running, exit status
    rdata       \* what of the JSON document reached the stdin of ssh

mvars == <<mflags, mpc, mmode, mfail, rpc, rdata>>

NoFlags == [set |-> FALSE]
NoMode == [useRemote |-> FALSE, remoteHost |-> ""]
SubmitIdle ==
    /\ mflags = NoFlags
    /\ mpc = "idle"
    /\ mmode = NoMode
    /\ mfail = "none"
    /\ rpc = "none"
    /\ rdata = "none"

VARIABLES
    wtree,      \* ComputeDirectory: the entries under the root directory
    wpos,       \* filepath.Walk: the entry it is at, in lexical order
    wskip,      \* filepath.Walk: directories the callback answered SkipDir for
    wacc,       \* the checksums appended so far
    wret        \* what ComputeDirectory returned

wvars == <<wtree, wpos, wskip, wacc, wret>>

NoTree == [set |-> FALSE]
NotReturned == [done |-> FALSE]
WalkIdle ==
    wtree = NoTree /\ wpos = 0 /\ wskip = {} /\ wacc = <<>> /\ wret = NotReturned

Step4Idle == ptable = <<>> /\ ppc = "idle" /\ pret = "none"

VARIABLES
    ttree,      \* ComputeDirectory: the files under the root directory
    tresults    \* what its invocations on that directory returned, in order

tvars == <<ttree, tresults>>

TwiceIdle == ttree = <<>> /\ tresults = <<>>

VARIABLES
    gctx,       \* git.Context: whether DB is set, RunID, StepNumber
    gops,       \* the operations table of the store
    glast       \* the call made: what ran, the timing.Result, what was returned

gvars == <<gctx, gops, glast>>

OpIdle == gctx = [set |-> FALSE] /\ gops = <<>> /\ glast = [done |-> FALSE]

VARIABLES
    vin,        \* lfsverify: the expected files, what git lfs ls-files does, the sizes
    vout        \* lfsverify: the function called and what it returned

vvars == <<vin, vout>>

VerifyIdle == vin = [set |-> FALSE] /\ vout = [done |-> FALSE]

VARIABLES
    hscn,       \* phases: Runner.Debug and the scenario's protocol and server URL
    hpc,        \* phases: the phase Execute is in, the position in it, why it
                \* failed, the phases that returned nil
    hstored,    \* phases: the StoreChecksums calls that stored rows, in order
    hlog,       \* phases: the messages phase 6 printed, the clone phase 4 ran
    hret        \* phases: what Execute returned, the status of the run in the store

hvars == <<hscn, hpc, hstored, hlog, hret>>

PhasesIdle ==
    /\ hscn = [set |-> FALSE]
    /\ hpc = [step |-> 0, at |-> "idle", cause |-> "", ok |-> {}]
    /\ hstored = <<>>
    /\ hlog = {}
    /\ hret = [kind |-> "none", step |-> 0, status |-> "running"]

VARIABLES
    lruns,      \* lfst-run: the test_runs table its commands work on
    lcount,     \* lfst-run: commands run so far
    llast       \* lfst-run: the last command and how it exited

lvars == <<lruns, lcount, llast>>

RunCmdIdle == lruns = <<>> /\ lcount = 0 /\ llast = [cmd |-> "none", exit |-> 0]

VARIABLES
    atable,     \* failing inserts: the checksums table
    alast       \* failing inserts: the last call, what it returned, what it was given

avars == <<atable, alast>>

AtomicIdle == atable = <<>> /\ alast = [ret |-> "none"]

VARIABLES
    uruns,      \* one machine, two runs: the test_runs table
    uorch,      \* one machine, two runs: each Execute's position, pid and work dir
    uprocs,     \* one machine, two runs: pid -> the process that has it
    udirs,      \* one machine, two runs: work dir -> repo -> exists
    ucancel,    \* one machine, two runs: handleCancel's position, run and work dir
    usignals    \* one machine, two runs: the signals handleCancel delivered

uvars == <<uruns, uorch, uprocs, udirs, ucancel, usignals>>

SharedIdle ==
    /\ uruns = <<>>
    /\ uorch = <<>>
    /\ uprocs = <<>>
    /\ udirs = <<>>
    /\ ucancel = [pc |-> "idle"]
    /\ usignals = {}

VARIABLES
    kclock,     \* timestamps: the time now
    krun,       \* timestamps: the test run, when it was created, its started_at
    kops        \* timestamps: the started_at of the operations recorded for it

kvars == <<kclock, krun, kops>>

ClockIdle == kclock = 1 /\ krun = [created |-> FALSE] /\ kops = <<>>

VARIABLES
    nfiles,     \* DownloadFile: the destination file and the .download file
    npc,        \* DownloadFile: position and attempt
    nret        \* DownloadFile: what it returned

nvars == <<nfiles, npc, nret>>

DownloadIdle ==
    /\ nfiles = [set |-> FALSE]
    /\ npc = [at |-> "idle", attempt |-> 0]
    /\ nret = [done |-> FALSE]

aux == <<dvars, nvars, kvars, uvars, avars, lvars, hvars, vvars, gvars, tvars, pvars, jvars, svars, mvars, wvars>>
AuxIdle == DiffIdle /\ Step4Idle /\ RoundTripIdle /\ StoreIdle /\ SubmitIdle /\ WalkIdle /\ TwiceIdle /\ OpIdle /\ VerifyIdle /\ PhasesIdle /\ RunCmdIdle /\ AtomicIdle /\ SharedIdle /\ ClockIdle /\ DownloadIdle

\* the state after construction of the orchestrators, the canceller and the store
MainInit ==
    /\ runs = [r \in RunIds |-> NoRow]
    /\ nextId = 1
    /\ dirs = [w \in WorkDirs |-> [d \in Repos |-> FALSE]]
    /\ opc = [o \in Orchs |-> "idle"]
    /\ orun = [o \in Orchs |-> NoRun]
    /\ owd = [o \in Orchs |-> DefaultWorkDir]
    /\ ostep = [o \in Orchs |-> 0]
    /\ ohist = [o \in Orchs |-> <<>>]
    /\ oret = [o \in Orchs |-> [kind |-> "none", step |-> 0]]
    /\ child = [o \in Orchs |-> "none"]
    /\ cpc = "idle"
    /\ carg = CancelAll
    /\ cwd = DefaultWorkDir
    /\ cqueue = <<>>
    /\ cmarked = {}
    /\ ctargets = {}
    /\ cstale = {}
    /\ cout = "none"
    /\ ccount = 0

\* ------------------------------------------------------------- filesystem
\* os.Stat(dir) succeeded, then os.RemoveAll(dir); ok: RemoveAll returned nil
RemoveRepo(fs, w, d, ok) ==
    IF fs[w][d] /\ ok THEN [fs EXCEPT ![w][d] = FALSE] ELSE fs

\* os.MkdirAll(dir), or git init / git clone creating its target directory
MakeRepo(fs, w, d) == [fs EXCEPT ![w][d] = TRUE]

\* the external command a phase blocks on: git init <repo1> in phase 1,
\* git clone <url> <repo2> in phase 4, git -C <repo> ... in the others
Command(k) == IF k = 1 THEN "init" ELSE IF k = 4 THEN "clone" ELSE "git"

\* the directory that git init and git clone create
ChildTarget(cmd) ==
    IF cmd = "init" THEN "repo1" ELSE IF cmd = "clone" THEN "repo2" ELSE "none"

\* the memory of a process that has ended is gone: only the id of its run
\* is kept, to tell whose orchestrator it was
Forget(run) == [NoRun EXCEPT !.ID = run.ID]

\* ------------------------------------------------------- Runner.Execute
\* run.Status = "failed"; run.Notes += " | Failed at step k: ..."
FailedRun(run, k) ==
    [run EXCEPT !.Status = "failed", !.Notes = Append(@, NoteFailed(k))]

\* run.Status = "completed"; run.Notes += " | All steps completed successfully"
CompletedRun(run) ==
    [run EXCEPT !.Status = "completed", !.Notes = Append(@, NoteCompleted)]

AfterStepIgnoringError(k, ok) ==
    IF k = NumSteps THEN "markCompleted" ELSE "loop"

\* the loop of Execute after step() returned: err != nil leaves the loop
AfterStep(k, ok) ==
    IF ~ok THEN "markFailed"
    ELSE IF k = NumSteps THEN "markCompleted" ELSE "loop"

\* an Execute that sets up repo1 before it validates the prerequisites
ExecStartThenValidate(o, w, prereqOk) ==
    /\ opc[o] = "idle"
    /\ \A p \in Orchs : p < o => opc[p] # "idle"
    /\ \A p \in Orchs : ~OrchAlive(p)
    /\ owd' = [owd EXCEPT ![o] = w]
    /\ dirs' = MakeRepo(dirs, w, "repo1")
    /\ opc' = [opc EXCEPT ![o] = IF prereqOk THEN "create" ELSE "exited"]
    /\ oret' = IF prereqOk THEN oret ELSE [oret EXCEPT ![o] = [kind |-> "prereq", step |-> 0]]
    /\ UNCHANGED <<aux, runs, nextId, orun, ostep, ohist, child, cvars>>

\* main of lfst-scenario up to Execute's validatePrerequisites
ExecStart(o, w, prereqOk) ==
    /\ opc[o] = "idle"
    /\ \A p \in Orchs : p < o => opc[p] # "idle"
    /\ \A p \in Orchs : ~OrchAlive(p)  \* the invocations follow one another
    /\ owd' = [owd EXCEPT ![o] = w]
    /\ IF prereqOk
       THEN /\ opc' = [opc EXCEPT ![o] = "create"]
            /\ oret' = oret
       ELSE /\ opc' = [opc EXCEPT ![o] = "exited"]
            /\ oret' = [oret EXCEPT ![o] = [kind |-> "prereq", step |-> 0]]
    /\ UNCHANGED <<aux, runs, nextId, dirs, orun, ostep, ohist, child, cvars>>

\* run := &TestRun{PID: os.Getpid(), Status: "running", Notes: ...};
\* r.DB.CreateTestRun(run); r.RunID = run.ID
ExecCreate(o, dbOk) ==
    /\ opc[o] = "create"
    /\ IF dbOk /\ nextId \in RunIds
       THEN LET run == [ID |-> nextId, PID |-> OrchPid(o), Status |-> "running",
                        CompletedAt |-> Nil, Notes |-> <<NoteAuto>>]
            IN /\ runs' = CreateTestRun(runs, nextId, run)
               /\ nextId' = nextId + 1
               /\ orun' = [orun EXCEPT ![o] = run]
               /\ opc' = [opc EXCEPT ![o] = "loop"]
               /\ oret' = oret
       ELSE /\ opc' = [opc EXCEPT ![o] = "exited"]
            /\ oret' = [oret EXCEPT ![o] = [kind |-> "create", step |-> 0]]
            /\ UNCHANGED <<runs, nextId, orun>>
    /\ UNCHANGED <<aux, dirs, owd, ostep, ohist, child, cvars>>

\* for i, step := range steps { stepNum := i + 1; step() ...: the phase is
\* invoked and blocks in timing.Run on the external command it spawned
StepStart(o) ==
    /\ opc[o] = "loop"
    /\ ostep[o] < NumSteps
    /\ LET k == ostep[o] + 1
       IN /\ ostep' = [ostep EXCEPT ![o] = k]
          /\ ohist' = [ohist EXCEPT ![o] = Append(@, [step |-> k, result |-> "running"])]
          /\ child' = [child EXCEPT ![o] = Command(k)]
          /\ dirs' = IF k = 1 THEN MakeRepo(dirs, owd[o], "repo1")
                     ELSE IF k = 4 THEN RemoveRepo(dirs, owd[o], "repo2", TRUE)
                     ELSE dirs
    /\ opc' = [opc EXCEPT ![o] = "inStep"]
    /\ UNCHANGED <<aux, runs, nextId, orun, owd, oret, cvars>>

\* the external command works on: git init / git clone create their directory
ChildCreate(o) ==
    /\ child[o] # "none"
    /\ ChildTarget(child[o]) # "none"
    /\ ~dirs[owd[o]][ChildTarget(child[o])]
    /\ dirs' = MakeRepo(dirs, owd[o], ChildTarget(child[o]))
    /\ UNCHANGED <<aux, runs, nextId, ovars, cvars>>

\* cmd.Run() returns in timing.Run and the phase returns nil or an error
StepEnd(o, ok) ==
    /\ opc[o] = "inStep"
    /\ child[o] # "none"
    /\ child' = [child EXCEPT ![o] = "none"]
    /\ ohist' = [ohist EXCEPT ![o][Len(ohist[o])].result = IF ok THEN "ok" ELSE "err"]
    /\ dirs' = IF ok /\ ChildTarget(child[o]) # "none"
               THEN MakeRepo(dirs, owd[o], ChildTarget(child[o]))
               ELSE dirs
    /\ opc' = [opc EXCEPT ![o] = AfterStep(ostep[o], ok)]
    /\ UNCHANGED <<aux, runs, nextId, orun, owd, ostep, oret, cvars>>

\* if err := step(); err != nil { run.Status = "failed"; run.Notes += ...;
\* r.DB.UpdateTestRun(run)   -- the error of UpdateTestRun is discarded
ExecMarkFailed(o, dbOk) ==
    /\ opc[o] = "markFailed"
    /\ LET run == FailedRun(orun[o], ostep[o])
       IN /\ orun' = [orun EXCEPT ![o] = run]
          /\ runs' = IF dbOk THEN UpdateTestRun(runs, run) ELSE runs
    /\ opc' = [opc EXCEPT ![o] = "cleanup"]
    /\ UNCHANGED <<aux, nextId, dirs, owd, ostep, ohist, oret, child, cvars>>

\* r.cleanup() (its error is only a warning); return "step k failed";
\* main prints the error and os.Exit(1)
ExecCleanup(o, ok1, ok2) ==
    /\ opc[o] = "cleanup"
    /\ dirs' = RemoveRepo(RemoveRepo(dirs, owd[o], "repo1", ok1), owd[o], "repo2", ok2)
    /\ opc' = [opc EXCEPT ![o] = "exited"]
    /\ oret' = [oret EXCEPT ![o] = [kind |-> "step", step |-> ostep[o]]]
    /\ orun' = [orun EXCEPT ![o] = Forget(@)]
    /\ ostep' = [ostep EXCEPT ![o] = 0]
    /\ ohist' = [ohist EXCEPT ![o] = <<>>]
    /\ UNCHANGED <<aux, runs, nextId, owd, child, cvars>>

\* run.Status = "completed"; run.Notes += ...; if err := r.DB.UpdateTestRun(run);
\* err != nil { return "failed to update test run" }; return nil
ExecMarkCompleted(o, dbOk) ==
    /\ opc[o] = "markCompleted"
    /\ LET run == CompletedRun(orun[o])
       IN runs' = IF dbOk THEN UpdateTestRun(runs, run) ELSE runs
    /\ opc' = [opc EXCEPT ![o] = "exited"]
    /\ oret' = [oret EXCEPT ![o] = [kind |-> IF dbOk THEN "ok" ELSE "update", step |-> 0]]
    /\ orun' = [orun EXCEPT ![o] = Forget(@)]
    /\ ostep' = [ostep EXCEPT ![o] = 0]
    /\ ohist' = [ohist EXCEPT ![o] = <<>>]
    /\ UNCHANGED <<aux, nextId, dirs, owd, child, cvars>>

\* an external command outlives its orchestrator and exits on its own
OrphanExit(o) ==
    /\ child[o] # "none"
    /\ ~OrchAlive(o)
    /\ child' = [child EXCEPT ![o] = "none"]
    /\ UNCHANGED <<aux, runs, nextId, dirs, opc, orun, owd, ostep, ohist, oret, cvars>>

\* lfst replaces itself by lfst-scenario so that the subcommand receives the
\* signals directly, and lfst-scenario installs no handler: a signal from the
\* terminal or the system ends the orchestrator where it stands, its row and
\* its external command left as they are
Interrupt(o) ==
    /\ OrchAlive(o)
    /\ opc[o] # "terminating"
    /\ opc' = [opc EXCEPT ![o] = "killed"]
    /\ orun' = [orun EXCEPT ![o] = Forget(@)]
    /\ ostep' = [ostep EXCEPT ![o] = 0]
    /\ ohist' = [ohist EXCEPT ![o] = <<>>]
    /\ UNCHANGED <<aux, runs, nextId, dirs, owd, oret, child, cvars>>

Execute ==
    \E o \in Orchs :
        \/ \E w \in WorkDirs, b \in BOOLEAN : ExecStart(o, w, b)
        \/ \E b \in BOOLEAN : ExecCreate(o, b)
        \/ StepStart(o)
        \/ ChildCreate(o)
        \/ \E b \in BOOLEAN : StepEnd(o, b)
        \/ \E b \in BOOLEAN : ExecMarkFailed(o, b)
        \/ \E b1 \in BOOLEAN, b2 \in BOOLEAN : ExecCleanup(o, b1, b2)
        \/ \E b \in BOOLEAN : ExecMarkCompleted(o, b)
        \/ OrphanExit(o)
        \/ Interrupt(o)

\* ----------------------------------------------------------- handleCancel
CancellableAlways(run) == TRUE

\* if run.Status == "running" (in the "all" filter) / run.Status != "running"
\* (the early return of cancel by id)
Cancellable(run) == run.Status = "running"

CancelledRunNoTimestamp(run, now) ==
    [run EXCEPT !.Status = "cancelled", !.PID = 0,
                !.Notes = Append(@, NoteCancelled)]

\* run.Status = "cancelled"; run.PID = 0; run.CompletedAt = &time.Now();
\* run.Notes += " | Cancelled by user"
CancelledRun(run, now) ==
    [run EXCEPT !.Status = "cancelled", !.PID = 0, !.CompletedAt = now,
                !.Notes = Append(@, NoteCancelled)]

\* the orders in which db.GetAllTestRuns() may list the rows of S: ORDER BY
\* started_at DESC, and Execute leaves started_at at its zero value
Orders(S) ==
    {q \in [1..Cardinality(S) -> S] :
        \A i \in DOMAIN q, j \in DOMAIN q : i # j => q[i] # q[j]}

\* handleCancel is entered: a new invocation of lfst-scenario --cancel
CancelEnter(arg, w) ==
    /\ cpc \in {"idle", "done"}
    /\ carg' = arg
    /\ cmarked' = {}
    /\ cstale' = {}

\* cancelArg == "all": every row with status running; none: "No running
\* tests to cancel" and return
CancelStartAll(w) ==
    /\ CancelEnter(CancelAll, w)
    /\ LET sel == {r \in RunIds : runs[r].status # "none"
                                   /\ Cancellable(GetTestRun(runs, r))}
       IN /\ ctargets' = sel
          /\ IF sel = {}
             THEN /\ cqueue' = <<>>
                  /\ cpc' = "done"
                  /\ cout' = "nothing"
                  /\ cwd' = DefaultWorkDir
             ELSE /\ \E q \in Orders(sel) :
                        cqueue' = [i \in DOMAIN q |-> GetTestRun(runs, q[i])]
                  /\ cpc' = "signal"
                  /\ cout' = "none"
                  /\ cwd' = w
    /\ ccount' = 0
    /\ UNCHANGED <<aux, runs, nextId, dirs, ovars>>

\* cancelArg is a run id: db.GetTestRun fails: "run not found", os.Exit(1);
\* status not running: "Run %d is not running" and return
CancelStartId(id, w) ==
    /\ CancelEnter(id, w)
    /\ IF runs[id].status = "none"
       THEN /\ cqueue' = <<>>
            /\ ctargets' = {}
            /\ cpc' = "done"
            /\ cout' = "error"
            /\ cwd' = DefaultWorkDir
       ELSE IF ~Cancellable(GetTestRun(runs, id))
       THEN /\ cqueue' = <<>>
            /\ ctargets' = {}
            /\ cpc' = "done"
            /\ cout' = "nothing"
            /\ cwd' = DefaultWorkDir
       ELSE /\ cqueue' = <<GetTestRun(runs, id)>>
            /\ ctargets' = {id}
            /\ cpc' = "signal"
            /\ cout' = "none"
            /\ cwd' = w
    /\ ccount' = 0
    /\ UNCHANGED <<aux, runs, nextId, dirs, ovars>>

\* process.Signal(syscall.SIGTERM) returned nil: the process exists.  A Go
\* program that does not call signal.Notify exits on SIGTERM; it makes no
\* further step, and either is gone within the grace interval or is still
\* there when it ends
CancelSigterm(dies) ==
    /\ cpc = "signal"
    /\ LET run == Head(cqueue)
       IN /\ run.PID > 0
          /\ PidAlive(run.PID)
          /\ opc' = [opc EXCEPT ![run.PID] = IF dies THEN "killed" ELSE "terminating"]
          /\ orun' = [orun EXCEPT ![run.PID] = Forget(@)]
          /\ ostep' = [ostep EXCEPT ![run.PID] = 0]
          /\ ohist' = [ohist EXCEPT ![run.PID] = <<>>]
    /\ cpc' = "grace"
    /\ UNCHANGED <<aux, runs, nextId, dirs, owd, oret, child,
                   carg, cwd, cqueue, cmarked, ctargets, cstale, cout, ccount>>

\* run.PID <= 0, or process.Signal(syscall.SIGTERM) returned an error:
\* "Process %d not found (may have already exited)", and on to the cleanup
CancelSignalFailed ==
    /\ cpc = "signal"
    /\ LET run == Head(cqueue)
       IN /\ ~(run.PID > 0 /\ PidAlive(run.PID))
          /\ cstale' = cstale \cup {run.ID}
    /\ cpc' = "dirs"
    /\ UNCHANGED <<aux, runs, nextId, dirs, ovars,
                   carg, cwd, cqueue, cmarked, ctargets, cout, ccount>>

KillAlways(pid) == TRUE

\* err = process.Signal(syscall.Signal(0)); if err == nil: the process is
\* still running after the grace interval
StillRunning(pid) == PidAlive(pid)

\* time.Sleep(2 * time.Second); if the process is still running,
\* process.Kill(): it is ended by SIGKILL
CancelGraceEnd ==
    /\ cpc = "grace"
    /\ LET run == Head(cqueue)
       IN IF StillRunning(run.PID)
          THEN opc' = [opc EXCEPT ![run.PID] = "sigkilled"]
          ELSE UNCHANGED opc
    /\ cpc' = "dirs"
    /\ UNCHANGED <<aux, runs, nextId, dirs, orun, owd, ostep, ohist, oret, child,
                   carg, cwd, cqueue, cmarked, ctargets, cstale, cout, ccount>>

\* repo1Dir := filepath.Join(workDir, "repo1"), repo2Dir likewise; each, if
\* os.Stat finds it, os.RemoveAll (an error is a warning)
CancelRemove(ok1, ok2) ==
    /\ cpc = "dirs"
    /\ dirs' = RemoveRepo(RemoveRepo(dirs, cwd, "repo1", ok1), cwd, "repo2", ok2)
    /\ cpc' = "mark"
    /\ UNCHANGED <<aux, runs, nextId, ovars,
                   carg, cwd, cqueue, cmarked, ctargets, cstale, cout, ccount>>

\* the run is marked cancelled; db.UpdateTestRun(run) failing is a warning;
\* after the last run: "Cancelled %d test run(s)", len(runsToCanccel)
CancelMark(dbOk) ==
    /\ cpc = "mark"
    /\ LET run == CancelledRun(Head(cqueue), Now)
       IN /\ runs' = IF dbOk THEN UpdateTestRun(runs, run) ELSE runs
          /\ cmarked' = IF dbOk THEN cmarked \cup {run.ID} ELSE cmarked
    /\ cqueue' = Tail(cqueue)
    /\ IF Len(cqueue) = 1
       THEN /\ cpc' = "done"
            /\ cout' = "cancelled"
            /\ ccount' = Cardinality(ctargets)
            /\ cwd' = DefaultWorkDir
       ELSE /\ cpc' = "signal"
            /\ UNCHANGED <<cout, ccount, cwd>>
    /\ UNCHANGED <<aux, nextId, dirs, ovars,
                   carg, ctargets, cstale>>

Cancel ==
    \/ \E w \in WorkDirs : CancelStartAll(w)
    \/ \E id \in RunIds, w \in WorkDirs : CancelStartId(id, w)
    \/ \E b \in BOOLEAN : CancelSigterm(b)
    \/ CancelSignalFailed
    \/ CancelGraceEnd
    \/ \E b1 \in BOOLEAN, b2 \in BOOLEAN : CancelRemove(b1, b2)
    \/ \E b \in BOOLEAN : CancelMark(b)

Next == Execute \/ Cancel

Init == MainInit /\ AuxIdle

Spec == Init /\ [][Next]_vars

\* ------------------------------------------------------------ fingerprints
\* file paths are byte strings: "a", "b", and a name holding the single byte
\* 0xff, which is not valid UTF-8
PathA == <<97>>
PathB == <<98>>
PathBad == <<255>>
Paths == {PathA, PathB, PathBad}

\* contents of a file as ComputeFile sees them: hash.Sum32() and info.Size()
Crcs == {10, 305419896}
Sizes == {4, 5}
Contents == [crc : Crcs, size : Sizes]

\* the run and the steps whose snapshots are compared
SnapRun == 1
OldStep == 3
NewStep == 4

\* Go's < on strings, and SQLite's ORDER BY on TEXT: byte-wise
RECURSIVE PathLess(_, _)
PathLess(p, q) ==
    IF q = <<>> THEN FALSE
    ELSE IF p = <<>> THEN TRUE
    ELSE IF p[1] # q[1] THEN p[1] < q[1]
    ELSE PathLess(Tail(p), Tail(q))

\* the order sort.Slice(xs, func(i, j) bool { return xs[i].Path < xs[j].Path })
\* puts pairwise different paths in
SortPaths(P) ==
    CHOOSE s \in [1..Cardinality(P) -> P] :
        \A i \in DOMAIN s, j \in DOMAIN s : i < j => PathLess(s[i], s[j])

\* fmt.Sprintf("%08x", crc): eight hexadecimal digits, most significant first
Hex8(n) == [i \in 1..8 |-> (n \div (16 ^ (8 - i))) % 16]

\* the []*FileChecksum that ComputeDirectory returns for a tree whose regular
\* files are DOMAIN f: one element per file, sorted by path
FileChecksums(f) ==
    LET order == SortPaths(DOMAIN f)
    IN [i \in DOMAIN order |->
           [Path |-> order[i], CRC32 |-> f[order[i]].crc, SizeBytes |-> f[order[i]].size]]

Trees == UNION {[D -> Contents] : D \in SUBSET Paths}

\* database.Checksum built by StoreChecksums and by ImportJSON
ChecksumRow(run, step, cs) ==
    [RunID |-> run, StepNumber |-> step, FilePath |-> cs.Path,
     CRC32 |-> Hex8(cs.CRC32), SizeBytes |-> cs.SizeBytes]

\* a store that replaces the rows of the (run, step) instead of adding to them
RECURSIVE StoreChecksumsReplacing(_, _, _, _)
StoreChecksumsReplacing(table, run, step, checksums) ==
    LET kept == SelectSeq(table, LAMBDA row : ~(row.RunID = run /\ row.StepNumber = step))
    IN kept \o [i \in DOMAIN checksums |->
                  [RunID |-> run, StepNumber |-> step, FilePath |-> checksums[i].Path,
                   CRC32 |-> Hex8(checksums[i].CRC32), SizeBytes |-> checksums[i].SizeBytes]]

\* for _, cs := range checksums { db.CreateChecksum(...) }: INSERT INTO
\* checksums, one row after the other, the table kept in the order of its ids
RECURSIVE StoreChecksums(_, _, _, _)
StoreChecksums(table, run, step, checksums) ==
    IF checksums = <<>> THEN table
    ELSE StoreChecksums(Append(table, ChecksumRow(run, step, Head(checksums))),
                        run, step, Tail(checksums))

\* SELECT ... WHERE run_id = ? AND step_number = ? ORDER BY file_path: every
\* order of the matching rows that ascends by path (the order of rows with
\* equal paths is not determined)
ListChecksums(table, run, step) ==
    LET ids == {i \in DOMAIN table : table[i].RunID = run /\ table[i].StepNumber = step}
    IN {[k \in 1..Cardinality(ids) |-> table[q[k]]] :
           q \in {o \in [1..Cardinality(ids) -> ids] :
                     /\ \A i \in DOMAIN o, j \in DOMAIN o : i # j => o[i] # o[j]
                     /\ \A i \in DOMAIN o, j \in DOMAIN o :
                           i < j => ~PathLess(table[o[j]].FilePath, table[o[i]].FilePath)}}

\* oldMap[cs.FilePath] = cs over the listing: the last row of each path stays
PathsOf(listing) == {listing[i].FilePath : i \in DOMAIN listing}
MapOf(listing) ==
    [p \in PathsOf(listing) |->
        listing[CHOOSE i \in DOMAIN listing :
                    /\ listing[i].FilePath = p
                    /\ \A j \in DOMAIN listing : listing[j].FilePath = p => j <= i]]

\* the zero values of the fields a Difference leaves unset
NoCRC == <<>>
NoSize == 0

ChangeTypeAlwaysModified(oldCS, newCS) == "modified"

\* changeType := "modified"; if oldCS.SizeBytes != newCS.SizeBytes
\* { changeType = "size-changed" }
ChangeType(oldCS, newCS) ==
    IF oldCS.SizeBytes # newCS.SizeBytes THEN "size-changed" ELSE "modified"

\* CompareChecksums on the two listings: deleted and modified from the range
\* over oldMap, added from the range over newMap, then sorted by path
CompareChecksums(oldChecksums, newChecksums) ==
    LET oldMap == MapOf(oldChecksums)
        newMap == MapOf(newChecksums)
        deleted == {[FilePath |-> p, OldCRC32 |-> oldMap[p].CRC32, OldSize |-> oldMap[p].SizeBytes,
                     NewCRC32 |-> NoCRC, NewSize |-> NoSize, ChangeType |-> "deleted"] :
                        p \in DOMAIN oldMap \ DOMAIN newMap}
        changed == {[FilePath |-> p, OldCRC32 |-> oldMap[p].CRC32, OldSize |-> oldMap[p].SizeBytes,
                     NewCRC32 |-> newMap[p].CRC32, NewSize |-> newMap[p].SizeBytes,
                     ChangeType |-> ChangeType(oldMap[p], newMap[p])] :
                        p \in {x \in DOMAIN oldMap \cap DOMAIN newMap :
                                  oldMap[x].CRC32 # newMap[x].CRC32}}
        added == {[FilePath |-> p, OldCRC32 |-> NoCRC, OldSize |-> NoSize,
                   NewCRC32 |-> newMap[p].CRC32, NewSize |-> newMap[p].SizeBytes,
                   ChangeType |-> "added"] :
                        p \in DOMAIN newMap \ DOMAIN oldMap}
        diffs == deleted \cup changed \cup added
        order == SortPaths({d.FilePath : d \in diffs})
    IN [i \in DOMAIN order |-> CHOOSE d \in diffs : d.FilePath = order[i]]

\* the snapshot of a step as stored from one ComputeDirectory and read back
Snapshot(step, f) ==
    CHOOSE l \in ListChecksums(StoreChecksums(<<>>, SnapRun, step, FileChecksums(f)),
                               SnapRun, step) : TRUE

DiffInit ==
    /\ MainInit
    /\ DownloadIdle
    /\ ClockIdle
    /\ SharedIdle
    /\ AtomicIdle
    /\ RunCmdIdle
    /\ PhasesIdle
    /\ VerifyIdle
    /\ OpIdle
    /\ TwiceIdle
    /\ Step4Idle
    /\ RoundTripIdle
    /\ StoreIdle
    /\ SubmitIdle
    /\ WalkIdle
    /\ dold \in {Snapshot(OldStep, f) : f \in Trees}
    /\ dnew \in {Snapshot(NewStep, f) : f \in Trees}
    /\ dout = NoCall

\* diffs, err := checksum.CompareChecksums(db, runID, oldStep, newStep)
DiffCompare ==
    /\ ~dout.done
    /\ dout' = [done |-> TRUE, diffs |-> CompareChecksums(dold, dnew)]
    /\ UNCHANGED <<vars, dold, dnew, nvars, kvars, uvars, avars, lvars, hvars, vvars, gvars, tvars, pvars, jvars, svars, mvars, wvars>>

DiffNext == DiffCompare

DiffSpec == DiffInit /\ [][DiffNext]_<<vars, aux>>

\* ------------------------------------------------------ Step4_SecondClone
\* the orchestrator of the first run
FirstOrch == CHOOSE o \in Orchs : OrchPid(o) = SnapRun

\* the diffs CompareChecksums(db, run, 3, 4) can return on the table
Diffs34(table) ==
    {CompareChecksums(lo, ln) : lo \in ListChecksums(table, SnapRun, OldStep),
                                ln \in ListChecksums(table, SnapRun, NewStep)}

\* Execute has invoked phase 4 of the first run: phases 1 to 3 returned nil,
\* snapshot 3 of repo1 is stored, git clone is running
Step4Init ==
    LET run == [ID |-> SnapRun, PID |-> OrchPid(FirstOrch), Status |-> "running",
                CompletedAt |-> Nil, Notes |-> <<NoteAuto>>]
    IN /\ runs = CreateTestRun([r \in RunIds |-> NoRow], SnapRun, run)
       /\ nextId = SnapRun + 1
       /\ dirs = MakeRepo([w \in WorkDirs |-> [d \in Repos |-> FALSE]], DefaultWorkDir, "repo1")
       /\ opc = [o \in Orchs |-> IF o = FirstOrch THEN "inStep" ELSE "idle"]
       /\ orun = [o \in Orchs |-> IF o = FirstOrch THEN run ELSE NoRun]
       /\ owd = [o \in Orchs |-> DefaultWorkDir]
       /\ ostep = [o \in Orchs |-> IF o = FirstOrch THEN NewStep ELSE 0]
       /\ ohist = [o \in Orchs |->
                     IF o = FirstOrch
                     THEN [k \in 1..NewStep |->
                              [step |-> k, result |-> IF k < NewStep THEN "ok" ELSE "running"]]
                     ELSE <<>>]
       /\ oret = [o \in Orchs |-> [kind |-> "none", step |-> 0]]
       /\ child = [o \in Orchs |-> IF o = FirstOrch THEN Command(NewStep) ELSE "none"]
       /\ cpc = "idle"
       /\ carg = CancelAll
       /\ cwd = DefaultWorkDir
       /\ cqueue = <<>>
       /\ cmarked = {}
       /\ ctargets = {}
       /\ cstale = {}
       /\ cout = "none"
       /\ ccount = 0
       /\ DiffIdle
       /\ DownloadIdle
       /\ ClockIdle
       /\ SharedIdle
       /\ AtomicIdle
       /\ RunCmdIdle
       /\ PhasesIdle
       /\ VerifyIdle
       /\ OpIdle
       /\ TwiceIdle
       /\ RoundTripIdle
       /\ StoreIdle
       /\ SubmitIdle
       /\ WalkIdle
       /\ ptable \in {StoreChecksums(<<>>, SnapRun, OldStep, FileChecksums(f)) : f \in Trees}
       /\ ppc = "clone"
       /\ pret = "none"

\* if err := ctx.Clone(cloneURL, r.Repo2Dir); err != nil { return err }
Step4Clone(ok) ==
    /\ ppc = "clone"
    /\ IF ok
       THEN /\ dirs' = MakeRepo(dirs, owd[FirstOrch], "repo2")
            /\ ppc' = "snapshot"
            /\ pret' = pret
       ELSE /\ dirs' = dirs
            /\ ppc' = "return"
            /\ pret' = "clone"
    /\ UNCHANGED <<runs, nextId, ovars, cvars, dvars, nvars, kvars, uvars, avars, lvars, hvars, vvars, gvars, tvars, jvars, svars, mvars, wvars, ptable>>

\* checksums, err := checksum.ComputeDirectory(r.Repo2Dir);
\* checksum.StoreChecksums(r.DB, r.RunID, 4, checksums); f: the files of the
\* clone, whatever the transport delivered
Step4Snapshot(f, computeOk, storeOk) ==
    /\ ppc = "snapshot"
    /\ IF ~computeOk
       THEN /\ ppc' = "return"
            /\ pret' = "compute"
            /\ ptable' = ptable
       ELSE IF ~storeOk
       THEN /\ ppc' = "return"
            /\ pret' = "store"
            /\ ptable' = ptable
       ELSE /\ ppc' = "compare"
            /\ pret' = pret
            /\ ptable' = StoreChecksums(ptable, SnapRun, NewStep, FileChecksums(f))
    /\ UNCHANGED <<vars, dvars, nvars, kvars, uvars, avars, lvars, hvars, vvars, gvars, tvars, jvars, svars, mvars, wvars>>

\* if len(diffs) > 0 { return "checksum mismatch: ..." }
Step4Mismatch(diffs) == Len(diffs) > 0

\* diffs, err := checksum.CompareChecksums(r.DB, r.RunID, 3, 4)
Step4Compare ==
    /\ ppc = "compare"
    /\ \E diffs \in Diffs34(ptable) :
          IF Step4Mismatch(diffs)
          THEN ppc' = "return" /\ pret' = "mismatch"
          ELSE ppc' = "verify" /\ pret' = pret
    /\ UNCHANGED <<vars, dvars, nvars, kvars, uvars, avars, lvars, hvars, vvars, gvars, tvars, jvars, svars, mvars, wvars, ptable>>

\* lfsverify.VerifyLFSPointers, VerifyLFSObjects, VerifyRepositorySizes on
\* the clone; return nil when all pass
Step4Verify(ok) ==
    /\ ppc = "verify"
    /\ ppc' = "return"
    /\ pret' = IF ok THEN "ok" ELSE "verify"
    /\ UNCHANGED <<vars, dvars, nvars, kvars, uvars, avars, lvars, hvars, vvars, gvars, tvars, jvars, svars, mvars, wvars, ptable>>

\* the phase returns to the loop of Execute
Step4Return ==
    /\ ppc = "return"
    /\ ppc' = "returned"
    /\ child' = [child EXCEPT ![FirstOrch] = "none"]
    /\ ohist' = [ohist EXCEPT ![FirstOrch][Len(ohist[FirstOrch])].result =
                                   IF pret = "ok" THEN "ok" ELSE "err"]
    /\ opc' = [opc EXCEPT ![FirstOrch] = AfterStep(ostep[FirstOrch], pret = "ok")]
    /\ UNCHANGED <<runs, nextId, dirs, orun, owd, ostep, oret, cvars, dvars, nvars, kvars, uvars, avars, lvars, hvars, vvars, gvars, tvars, jvars, svars, mvars, wvars, ptable, pret>>

\* phase 4 got as far as comparing: snapshot 4 is in the store
Snapshot4Stored == pret \in {"ok", "mismatch", "verify"}

Step4Next ==
    \/ \E b \in BOOLEAN : Step4Clone(b)
    \/ \E f \in Trees, b1 \in BOOLEAN, b2 \in BOOLEAN : Step4Snapshot(f, b1, b2)
    \/ Step4Compare
    \/ \E b \in BOOLEAN : Step4Verify(b)
    \/ Step4Return
    \/ \E b \in BOOLEAN : ExecMarkFailed(FirstOrch, b)
    \/ \E b1 \in BOOLEAN, b2 \in BOOLEAN : ExecCleanup(FirstOrch, b1, b2)

Step4Spec == Step4Init /\ [][Step4Next]_<<vars, aux>>

\* ------------------------------------------------- ExportJSON, ImportJSON
\* strings are sequences of bytes; utf8.DecodeRuneInString at s[i]: the width
\* of the well-formed encoding that starts there, 0 when there is none
IsCont(b) == b \in 128..191
RuneLen(s, i) ==
    LET b == s[i]
        n == Len(s)
    IN IF b < 128 THEN 1
       ELSE IF /\ b \in 194..223
               /\ i + 1 <= n
               /\ IsCont(s[i + 1]) THEN 2
       ELSE IF /\ b \in 224..239
               /\ i + 2 <= n
               /\ IsCont(s[i + 1]) /\ IsCont(s[i + 2])
               /\ b = 224 => s[i + 1] >= 160
               /\ b = 237 => s[i + 1] <= 159 THEN 3
       ELSE IF /\ b \in 240..244
               /\ i + 3 <= n
               /\ IsCont(s[i + 1]) /\ IsCont(s[i + 2]) /\ IsCont(s[i + 3])
               /\ b = 240 => s[i + 1] >= 144
               /\ b = 244 => s[i + 1] <= 143 THEN 4
       ELSE 0

\* the lower-case hexadecimal digit d, and the value of a hexadecimal digit
HexDigit(d) == IF d < 10 THEN 48 + d ELSE 87 + d
HexVal(a) == IF a <= 57 THEN a - 48 ELSE IF a >= 97 THEN a - 87 ELSE a - 55

\* the escape \uXXXX of the code point c
EscapeU(c) ==
    <<92, 117, HexDigit(c \div 4096), HexDigit((c \div 256) % 16),
      HexDigit((c \div 16) % 16), HexDigit(c % 16)>>

\* encoding/json, a string value as the text between the quotes: quote and
\* backslash escaped, control characters and < > & as \n \r \t or \u00XX,
\* an invalid byte as the escape of utf8.RuneError (65533), U+2028 and U+2029 escaped, the rest copied
RECURSIVE EncodeFrom(_, _)
EncodeFrom(s, i) ==
    IF i > Len(s) THEN <<>>
    ELSE LET b == s[i]
             n == RuneLen(s, i)
         IN IF n = 0 THEN EscapeU(65533) \o EncodeFrom(s, i + 1)
            ELSE IF n = 1
            THEN (IF b \in {34, 92} THEN <<92, b>>
                  ELSE IF b = 10 THEN <<92, 110>>
                  ELSE IF b = 13 THEN <<92, 114>>
                  ELSE IF b = 9 THEN <<92, 116>>
                  ELSE IF b < 32 \/ b \in {60, 62, 38} THEN EscapeU(b)
                  ELSE <<b>>) \o EncodeFrom(s, i + 1)
            ELSE IF n = 3 /\ SubSeq(s, i, i + 2) \in {<<226, 128, 168>>, <<226, 128, 169>>}
            THEN EscapeU(8232 + (s[i + 2] - 168)) \o EncodeFrom(s, i + 3)
            ELSE SubSeq(s, i, i + n - 1) \o EncodeFrom(s, i + n)

\* utf8.EncodeRune of a code point of the basic plane
Utf8(c) ==
    IF c < 128 THEN <<c>>
    ELSE IF c < 2048 THEN <<192 + (c \div 64), 128 + (c % 64)>>
    ELSE <<224 + (c \div 4096), 128 + ((c \div 64) % 64), 128 + (c % 64)>>

\* encoding/json unquote of the text between the quotes
RECURSIVE DecodeFrom(_, _)
DecodeFrom(t, i) ==
    IF i > Len(t) THEN <<>>
    ELSE IF t[i] = 92
    THEN LET c == t[i + 1]
         IN IF c = 117
            THEN Utf8(4096 * HexVal(t[i + 2]) + 256 * HexVal(t[i + 3])
                      + 16 * HexVal(t[i + 4]) + HexVal(t[i + 5]))
                    \o DecodeFrom(t, i + 6)
            ELSE (IF c = 110 THEN <<10>>
                  ELSE IF c = 114 THEN <<13>>
                  ELSE IF c = 116 THEN <<9>>
                  ELSE <<c>>) \o DecodeFrom(t, i + 2)
    ELSE <<t[i]>> \o DecodeFrom(t, i + 1)

\* encoding/json, an unsigned integer as its decimal digits and back
RECURSIVE Decimal(_)
Decimal(n) == IF n < 10 THEN <<48 + n>> ELSE Append(Decimal(n \div 10), 48 + (n % 10))

RECURSIVE ParseDecimal(_)
ParseDecimal(ds) ==
    IF Len(ds) = 1 THEN ds[1] - 48
    ELSE 10 * ParseDecimal(SubSeq(ds, 1, Len(ds) - 1)) + (ds[Len(ds)] - 48)

\* json.MarshalIndent(&ChecksumExport{runID, stepNumber, checksums, time.Now()})
ExportJSON(runID, stepNumber, checksums) ==
    [sent |-> TRUE,
     run_id |-> Decimal(runID),
     step_number |-> Decimal(stepNumber),
     checksums |-> [i \in DOMAIN checksums |->
                       [Path |-> EncodeFrom(checksums[i].Path, 1),
                        CRC32 |-> Decimal(checksums[i].CRC32),
                        SizeBytes |-> Decimal(checksums[i].SizeBytes)]],
     computed_at |-> Now]

\* json.Unmarshal(data, &export)
Unmarshal(data) ==
    [RunID |-> ParseDecimal(data.run_id),
     StepNumber |-> ParseDecimal(data.step_number),
     Checksums |-> [i \in DOMAIN data.checksums |->
                       [Path |-> DecodeFrom(data.checksums[i].Path, 1),
                        CRC32 |-> ParseDecimal(data.checksums[i].CRC32),
                        SizeBytes |-> ParseDecimal(data.checksums[i].SizeBytes)]]]

\* file names the export meets: plain, with characters JSON escapes, with a
\* two-byte character, and with a byte that is not UTF-8
ExportPaths == {PathA, <<34, 60>>, <<195, 169>>, PathBad}
ExportTrees == UNION {[D -> Contents] : D \in SUBSET ExportPaths}

\* lfst-checksum has computed the checksums of a directory for a step of the
\* run; the store of lfst-import has no fingerprints yet, and has the test
\* run or not
RoundTripInit ==
    /\ MainInit
    /\ DownloadIdle
    /\ ClockIdle
    /\ SharedIdle
    /\ AtomicIdle
    /\ RunCmdIdle
    /\ PhasesIdle
    /\ VerifyIdle
    /\ OpIdle
    /\ TwiceIdle
    /\ DiffIdle
    /\ Step4Idle
    /\ StoreIdle
    /\ SubmitIdle
    /\ WalkIdle
    /\ jreq \in {[sent |-> TRUE, run |-> SnapRun, step |-> OldStep, checksums |-> FileChecksums(f)] :
                    f \in ExportTrees}
    /\ jdata = NoData
    /\ jruns \in {{}, {SnapRun}}
    /\ jtable = <<>>
    /\ jret = "none"

\* executeRemote: jsonData, err := checksum.ExportJSON(runID, stepNumber, checksums)
RoundTripExport ==
    /\ ~jdata.sent
    /\ jdata' = ExportJSON(jreq.run, jreq.step, jreq.checksums)
    /\ UNCHANGED <<vars, dvars, nvars, kvars, uvars, avars, lvars, hvars, vvars, gvars, tvars, pvars, svars, mvars, wvars, jreq, jruns, jtable, jret>>

\* lfst-import: checksum.ImportJSON(db, data); FOREIGN KEY (run_id) REFERENCES
\* test_runs(id) rejects the first INSERT when the store has no such run
RoundTripImport ==
    /\ jdata.sent
    /\ jret = "none"
    /\ LET export == Unmarshal(jdata)
       IN IF export.Checksums # <<>> /\ export.RunID \notin jruns
          THEN /\ jret' = "err"
               /\ jtable' = jtable
          ELSE /\ jret' = "ok"
               /\ jtable' = StoreChecksums(jtable, export.RunID, export.StepNumber,
                                           export.Checksums)
    /\ UNCHANGED <<vars, dvars, nvars, kvars, uvars, avars, lvars, hvars, vvars, gvars, tvars, pvars, svars, mvars, wvars, jreq, jdata, jruns>>

RoundTripNext == RoundTripExport \/ RoundTripImport

RoundTripSpec == RoundTripInit /\ [][RoundTripNext]_<<vars, aux>>

\* --------------------------------------------- recording into the store
MaxRecords == 2

\* the directories that are recorded
RecordTrees == UNION {[D -> Contents] : D \in SUBSET {PathA, PathB}}

\* the store holds the test run and no fingerprints
StoreInit ==
    /\ MainInit
    /\ DownloadIdle
    /\ ClockIdle
    /\ SharedIdle
    /\ AtomicIdle
    /\ RunCmdIdle
    /\ PhasesIdle
    /\ VerifyIdle
    /\ OpIdle
    /\ TwiceIdle
    /\ DiffIdle
    /\ Step4Idle
    /\ RoundTripIdle
    /\ SubmitIdle
    /\ WalkIdle
    /\ stable = <<>>
    /\ slast = NoRecord
    /\ scount = 0

\* lfst-checksum in local mode: db.GetTestRun(runID) finds the run,
\* checksum.StoreChecksums(db, runID, stepNumber, checksums)
Record(step, f) ==
    /\ scount < MaxRecords
    /\ scount' = scount + 1
    /\ stable' = StoreChecksums(stable, SnapRun, step, FileChecksums(f))
    /\ slast' = [ret |-> "ok", step |-> step, checksums |-> FileChecksums(f)]
    /\ UNCHANGED <<vars, dvars, nvars, kvars, uvars, avars, lvars, hvars, vvars, gvars, tvars, pvars, jvars, mvars, wvars>>

\* lfst-checksum in remote mode and lfst-import on this store:
\* checksum.ImportJSON(db, checksum.ExportJSON(runID, stepNumber, checksums))
Import(step, f) ==
    LET export == Unmarshal(ExportJSON(SnapRun, step, FileChecksums(f)))
    IN /\ scount < MaxRecords
       /\ scount' = scount + 1
       /\ stable' = StoreChecksums(stable, export.RunID, export.StepNumber, export.Checksums)
       /\ slast' = [ret |-> "ok", step |-> step, checksums |-> FileChecksums(f)]
       /\ UNCHANGED <<vars, dvars, nvars, kvars, uvars, avars, lvars, hvars, vvars, gvars, tvars, pvars, jvars, mvars, wvars>>

StoreNext ==
    \/ \E step \in {OldStep, NewStep}, f \in RecordTrees : Record(step, f)
    \/ \E step \in {OldStep, NewStep}, f \in RecordTrees : Import(step, f)

StoreSpec == StoreInit /\ [][StoreNext]_<<vars, aux>>

\* ------------------------------------------------------ lfst-checksum
\* DefaultConfig: RemoteHost "gojira"; another machine
Hosts == {"gojira", "bear"}

\* --local, --remote HOST ("" when not given), --skip-db; the configuration
\* config.Load() returns; what os.Hostname() returns: a name, or an error
Flags ==
    [set : {TRUE},
     forceLocal : BOOLEAN,
     forceRemote : {""} \cup Hosts,
     skipDatabase : BOOLEAN,
     AutoRemote : BOOLEAN,
     RemoteHost : Hosts,
     hostname : {[name |-> h, err |-> FALSE] : h \in Hosts} \cup {[name |-> "", err |-> TRUE]}]

IsRemoteHostIgnoringAutoRemote(cfg, hostname) ==
    IF hostname.err THEN FALSE ELSE hostname.name # cfg.RemoteHost

\* Config.IsRemoteHost
IsRemoteHost(cfg, hostname) ==
    IF ~cfg.AutoRemote THEN FALSE
    ELSE IF hostname.err THEN FALSE
    ELSE hostname.name # cfg.RemoteHost

\* main: useRemote and remoteHost
Dispatch(flags) ==
    IF flags.forceLocal THEN [useRemote |-> FALSE, remoteHost |-> ""]
    ELSE IF flags.forceRemote # "" THEN [useRemote |-> TRUE, remoteHost |-> flags.forceRemote]
    ELSE IF ~flags.skipDatabase /\ IsRemoteHost(flags, flags.hostname)
    THEN [useRemote |-> TRUE, remoteHost |-> flags.RemoteHost]
    ELSE [useRemote |-> FALSE, remoteHost |-> ""]

\* lfst-checksum has parsed its flags and loaded its configuration
SubmitInit ==
    /\ MainInit
    /\ DownloadIdle
    /\ ClockIdle
    /\ SharedIdle
    /\ AtomicIdle
    /\ RunCmdIdle
    /\ PhasesIdle
    /\ VerifyIdle
    /\ OpIdle
    /\ TwiceIdle
    /\ DiffIdle
    /\ Step4Idle
    /\ RoundTripIdle
    /\ StoreIdle
    /\ WalkIdle
    /\ mflags \in Flags
    /\ mpc = "start"
    /\ mmode = NoMode
    /\ mfail = "none"
    /\ rpc = "none"
    /\ rdata = "none"

MainUnchanged == UNCHANGED <<vars, dvars, nvars, kvars, uvars, avars, lvars, hvars, vvars, gvars, tvars, pvars, jvars, svars, wvars>>

\* main: determine if we should use remote mode
SubmitDispatch ==
    /\ mpc = "start"
    /\ mmode' = Dispatch(mflags)
    /\ mpc' = "compute"
    /\ UNCHANGED <<mflags, mfail, rpc, rdata>>
    /\ MainUnchanged

\* main: filepath.Abs, os.Stat, checksum.ComputeDirectory(absDir); with
\* --skip-db it prints and exits 0; then remote mode or local mode
SubmitCompute(ok) ==
    /\ mpc = "compute"
    /\ IF ~ok THEN mpc' = "exit1" /\ mfail' = "compute"
       ELSE IF mflags.skipDatabase THEN mpc' = "exit0" /\ mfail' = mfail
       ELSE IF mmode.useRemote THEN mpc' = "export" /\ mfail' = mfail
       ELSE mpc' = "local" /\ mfail' = mfail
    /\ UNCHANGED <<mflags, mmode, rpc, rdata>>
    /\ MainUnchanged

\* main, local mode: ValidateDatabase, database.Open, GetTestRun,
\* StoreChecksums, CompareChecksums; any error exits 1
SubmitLocal(ok) ==
    /\ mpc = "local"
    /\ mpc' = IF ok THEN "exit0" ELSE "exit1"
    /\ mfail' = IF ok THEN mfail ELSE "local"
    /\ UNCHANGED <<mflags, mmode, rpc, rdata>>
    /\ MainUnchanged

\* executeRemote: checksum.ExportJSON, cmd.StdinPipe()
RemoteExport(ok) ==
    /\ mpc = "export"
    /\ mpc' = IF ok THEN "startssh" ELSE "exit1"
    /\ mfail' = IF ok THEN mfail ELSE "export"
    /\ UNCHANGED <<mflags, mmode, rpc, rdata>>
    /\ MainUnchanged

\* executeRemote: cmd.Start()
RemoteStart(ok) ==
    /\ mpc = "startssh"
    /\ mpc' = IF ok THEN "write" ELSE "exit1"
    /\ mfail' = IF ok THEN mfail ELSE "start"
    /\ rpc' = IF ok THEN "running" ELSE rpc
    /\ UNCHANGED <<mflags, mmode, rdata>>
    /\ MainUnchanged

\* executeRemote: stdin.Write(jsonData); stdin.Close(). After an error the
\* process exits, which closes the pipe on what was written
RemoteWrite(ok) ==
    /\ mpc = "write"
    /\ mpc' = IF ok THEN "wait" ELSE "exit1"
    /\ mfail' = IF ok THEN mfail ELSE "write"
    /\ rdata' = IF ok THEN "full" ELSE "partial"
    /\ UNCHANGED <<mflags, mmode, rpc>>
    /\ MainUnchanged

\* ssh: the connection is refused or lost, exit status 255
RemoteLost ==
    /\ rpc = "running"
    /\ rpc' = "exit255"
    /\ UNCHANGED <<mflags, mpc, mmode, mfail, rdata>>
    /\ MainUnchanged

\* lfst-import --stdin: io.ReadAll(os.Stdin) returns at end of input; exit 1
\* on empty data, database.Open error or ImportJSON error, else exit 0
RemoteImport(ok) ==
    /\ rpc = "running"
    /\ rdata # "none"
    /\ rpc' = IF ok /\ rdata = "full" THEN "exit0" ELSE "exit1"
    /\ UNCHANGED <<mflags, mpc, mmode, mfail, rdata>>
    /\ MainUnchanged

WaitNeverFails(status) == FALSE

\* cmd.Wait() returns an *ExitError unless the exit status is 0
WaitError(status) == status # "exit0"

\* executeRemote: cmd.Wait(); main: exit 1 on its error, else the message
\* that the checksums are stored on the remote host and exit 0
RemoteWait ==
    /\ mpc = "wait"
    /\ rpc \in {"exit0", "exit1", "exit255"}
    /\ mpc' = IF WaitError(rpc) THEN "exit1" ELSE "exit0"
    /\ mfail' = IF WaitError(rpc) THEN "wait" ELSE mfail
    /\ UNCHANGED <<mflags, mmode, rpc, rdata>>
    /\ MainUnchanged

SubmitNext ==
    \/ SubmitDispatch
    \/ \E b \in BOOLEAN : SubmitCompute(b)
    \/ \E b \in BOOLEAN : SubmitLocal(b)
    \/ \E b \in BOOLEAN : RemoteExport(b)
    \/ \E b \in BOOLEAN : RemoteStart(b)
    \/ \E b \in BOOLEAN : RemoteWrite(b)
    \/ RemoteLost
    \/ \E b \in BOOLEAN : RemoteImport(b)
    \/ RemoteWait

SubmitSpec == SubmitInit /\ [][SubmitNext]_<<vars, aux>>

\* ------------------------------------------------------ ComputeDirectory
\* the entries a root directory can have, in the lexical order filepath.Walk
\* visits them: the file .checksums, the directory .git and a file in it,
\* the files a and b, the directory sub
WalkOrder == <<"sidecar", "git", "gitx", "a", "b", "sub">>

IsDir(e) == e \in {"git", "sub"}
Parent(e) == IF e = "gitx" THEN "git" ELSE "root"
EntryPath(e) == IF e = "a" THEN PathA ELSE PathB

\* an entry: absent, or present and readable or not (a file that cannot be
\* opened or read, a directory whose names cannot be read)
Absent == [present |-> FALSE, readable |-> FALSE, content |-> [crc |-> 10, size |-> 4]]
Unreadable == [present |-> TRUE, readable |-> FALSE, content |-> [crc |-> 10, size |-> 4]]
OtherStates == {Absent, Unreadable, [Unreadable EXCEPT !.readable = TRUE]}
FileStates == {Absent, Unreadable} \cup {[present |-> TRUE, readable |-> TRUE, content |-> c] : c \in Contents}

WalkTrees ==
    {t \in [set : {TRUE}, sidecar : OtherStates, git : OtherStates, gitx : OtherStates,
            a : FileStates, b : FileStates, sub : OtherStates] :
        t.gitx.present => t.git.present}

WalkInit ==
    /\ MainInit
    /\ DownloadIdle
    /\ ClockIdle
    /\ SharedIdle
    /\ AtomicIdle
    /\ RunCmdIdle
    /\ PhasesIdle
    /\ VerifyIdle
    /\ OpIdle
    /\ TwiceIdle
    /\ DiffIdle
    /\ Step4Idle
    /\ RoundTripIdle
    /\ StoreIdle
    /\ SubmitIdle
    /\ wtree \in WalkTrees
    /\ wpos = 1
    /\ wskip = {}
    /\ wacc = <<>>
    /\ wret = NotReturned

WalkErrorPartial(checksums) == checksums

\* if err != nil { return nil, fmt.Errorf("failed to walk directory: %w", err) }
WalkErrorResult(checksums) == <<>>

WalkAbort ==
    /\ wret' = [done |-> TRUE, err |-> TRUE, checksums |-> WalkErrorResult(wacc)]
    /\ UNCHANGED <<wpos, wskip, wacc>>

WalkOn ==
    /\ wpos' = wpos + 1
    /\ UNCHANGED <<wskip, wacc, wret>>

\* filepath.Walk at one entry and the callback of ComputeDirectory on it
WalkVisit ==
    /\ ~wret.done
    /\ wpos <= Len(WalkOrder)
    /\ LET e == WalkOrder[wpos]
           entry == wtree[e]
       IN IF ~entry.present \/ Parent(e) \in wskip THEN WalkOn
          ELSE IF IsDir(e)
          THEN IF e = "git"
               THEN /\ wskip' = wskip \cup {e}
                    /\ wpos' = wpos + 1
                    /\ UNCHANGED <<wacc, wret>>
               ELSE IF ~entry.readable THEN WalkAbort
               ELSE WalkOn
          ELSE IF e = "sidecar" THEN WalkOn
          ELSE IF ~entry.readable THEN WalkAbort
          ELSE /\ wacc' = Append(wacc, [Path |-> EntryPath(e), CRC32 |-> entry.content.crc,
                                        SizeBytes |-> entry.content.size])
               /\ wpos' = wpos + 1
               /\ UNCHANGED <<wskip, wret>>
    /\ UNCHANGED <<vars, dvars, nvars, kvars, uvars, avars, lvars, hvars, vvars, gvars, tvars, pvars, jvars, svars, mvars, wtree>>

\* the walk is over: sort.Slice by path, return checksums, nil
WalkReturn ==
    /\ ~wret.done
    /\ wpos > Len(WalkOrder)
    /\ LET order == SortPaths({wacc[i].Path : i \in DOMAIN wacc})
       IN wret' = [done |-> TRUE, err |-> FALSE,
                   checksums |-> [i \in DOMAIN order |->
                                     CHOOSE cs \in {wacc[k] : k \in DOMAIN wacc} :
                                         cs.Path = order[i]]]
    /\ UNCHANGED <<vars, dvars, nvars, kvars, uvars, avars, lvars, hvars, vvars, gvars, tvars, pvars, jvars, svars, mvars, wtree, wpos, wskip, wacc>>

WalkNext == WalkVisit \/ WalkReturn

WalkSpec == WalkInit /\ [][WalkNext]_<<vars, aux>>

\* --------------------------------------- ComputeDirectory, invoked again
MaxCalls == 2

\* the orders in which a traversal can meet the files of the tree
Traversals(f) ==
    {o \in [1..Cardinality(DOMAIN f) -> DOMAIN f] :
        \A i \in DOMAIN o, j \in DOMAIN o : i # j => o[i] # o[j]}

SortSliceNone(checksums) == checksums

\* sort.Slice(checksums, func(i, j int) bool { return checksums[i].Path <
\* checksums[j].Path })
SortSlice(checksums) ==
    LET order == SortPaths({checksums[i].Path : i \in DOMAIN checksums})
    IN [i \in DOMAIN order |->
           CHOOSE cs \in {checksums[k] : k \in DOMAIN checksums} : cs.Path = order[i]]

\* ComputeDirectory on a readable tree: the callback appends one checksum
\* per file as the traversal meets it, then the slice is sorted
ComputeDirectory(f, order) ==
    SortSlice([i \in DOMAIN order |->
                  [Path |-> order[i], CRC32 |-> f[order[i]].crc, SizeBytes |-> f[order[i]].size]])

TwiceInit ==
    /\ MainInit
    /\ DownloadIdle
    /\ ClockIdle
    /\ SharedIdle
    /\ AtomicIdle
    /\ RunCmdIdle
    /\ PhasesIdle
    /\ VerifyIdle
    /\ OpIdle
    /\ DiffIdle
    /\ Step4Idle
    /\ RoundTripIdle
    /\ StoreIdle
    /\ SubmitIdle
    /\ WalkIdle
    /\ ttree \in Trees
    /\ tresults = <<>>

\* one invocation; the tree is not changed
TwiceCompute(order) ==
    /\ Len(tresults) < MaxCalls
    /\ tresults' = Append(tresults, [order |-> order, checksums |-> ComputeDirectory(ttree, order)])
    /\ UNCHANGED <<vars, dvars, nvars, kvars, uvars, avars, lvars, hvars, vvars, gvars, pvars, jvars, svars, mvars, wvars, ttree>>

TwiceNext == \E order \in Traversals(ttree) : TwiceCompute(order)

TwiceSpec == TwiceInit /\ [][TwiceNext]_<<vars, aux>>

\* ------------------------------------------- timing.Run and git.Context
\* what happens to the command: it cannot be started, it exits with a status,
\* it is ended by a signal from elsewhere, or its timeout elapses and
\* exec.CommandContext kills it
Outcomes ==
    {[kind |-> "spawn", code |-> 0, sig |-> ""]}
    \cup {[kind |-> "exit", code |-> n, sig |-> ""] : n \in {0, 1, 128}}
    \cup {[kind |-> "signal", code |-> 0, sig |-> s] : s \in {"killed", "terminated"}}
    \cup {[kind |-> "timeout", code |-> 0, sig |-> "killed"]}

\* err of cmd.Run(): nil, an *exec.Error, or an *exec.ExitError with the text
\* of its ProcessState
RunError(o) ==
    IF o.kind = "spawn" THEN [type |-> "exec.Error", text |-> "executable file not found"]
    ELSE IF o.kind = "exit"
    THEN (IF o.code = 0 THEN [type |-> "nil", text |-> ""]
          ELSE [type |-> "exec.ExitError", text |-> "exit status"])
    ELSE [type |-> "exec.ExitError", text |-> "signal: " \o o.sig]

\* ProcessState.ExitCode(): the exit status, -1 for a process ended by a signal
ProcessExitCode(o) == IF o.kind = "exit" THEN o.code ELSE -1

\* a Run that reports 1 for every command that did not succeed
RunAllExitOne(o) ==
    [Error |-> RunError(o), ExitCode |-> IF RunError(o).type = "nil" THEN 0 ELSE 1]

\* timing.Run: Error and ExitCode of the Result
Run(o) ==
    LET err == RunError(o)
    IN [Error |-> err,
        ExitCode |-> IF err.type = "nil" THEN 0
                     ELSE IF err.type = "exec.ExitError" THEN ProcessExitCode(o)
                     ELSE -1]

\* Result.Success negated: what the callers test before returning an error
Failed(result) == result.Error.type # "nil" \/ result.ExitCode # 0

\* the operations of git.Context a phase calls, by the type they record;
\* ConfigUser records none
RecordedOps == {"init", "add", "commit", "clone", "lfs-install", "lfs-track", "lfs-untrack", "lfs-migrate"}

\* recordOperation: status failed when the result has an error or a non-zero
\* exit code
Operation(ctx, opType, result) ==
    [RunID |-> ctx.RunID, StepNumber |-> ctx.StepNumber, Operation |-> opType,
     Status |-> IF Failed(result) THEN "failed" ELSE "success"]

OpInit ==
    /\ MainInit
    /\ DownloadIdle
    /\ ClockIdle
    /\ SharedIdle
    /\ AtomicIdle
    /\ RunCmdIdle
    /\ PhasesIdle
    /\ VerifyIdle
    /\ DiffIdle
    /\ TwiceIdle
    /\ Step4Idle
    /\ RoundTripIdle
    /\ StoreIdle
    /\ SubmitIdle
    /\ WalkIdle
    /\ gctx \in [set : {TRUE}, DB : BOOLEAN, RunID : {SnapRun}, StepNumber : 1..NumSteps]
    /\ gops = <<>>
    /\ glast = [done |-> FALSE]

OpUnchanged == UNCHANGED <<vars, dvars, nvars, kvars, uvars, avars, lvars, hvars, vvars, tvars, pvars, jvars, svars, mvars, wvars, gctx>>

\* Context.Clone, InitRepo, Add, Commit, LFSInstall, LFSTrack, LFSUntrack,
\* LFSMigrate: timing.Run without options, recordOperation (nothing without
\* a store, its error only printed), then the error of the result returned
GitOp(opType, o, createOk) ==
    LET result == Run(o)
    IN /\ ~glast.done
       /\ o.kind # "timeout"
       /\ gops' = IF gctx.DB /\ createOk THEN Append(gops, Operation(gctx, opType, result)) ELSE gops
       /\ glast' = [done |-> TRUE, op |-> opType, outcome |-> o, result |-> result,
                    err |-> Failed(result)]
       /\ OpUnchanged

\* Context.ConfigUser: two timing.Run without recordOperation; o is the
\* outcome of the first command that does not succeed, or of the second
ConfigUser(o) ==
    LET result == Run(o)
    IN /\ ~glast.done
       /\ o.kind # "timeout"
       /\ gops' = gops
       /\ glast' = [done |-> TRUE, op |-> "config-user", outcome |-> o, result |-> result,
                    err |-> Failed(result)]
       /\ OpUnchanged

\* timing.Run with Options.Timeout > 0
TimedRun(o) ==
    /\ ~glast.done
    /\ gops' = gops
    /\ glast' = [done |-> TRUE, op |-> "run", outcome |-> o, result |-> Run(o),
                 err |-> Failed(Run(o))]
    /\ OpUnchanged

OpNext ==
    \/ \E o \in Outcomes : ConfigUser(o)
    \/ \E opType \in RecordedOps, o \in Outcomes, b \in BOOLEAN : GitOp(opType, o, b)
    \/ \E o \in Outcomes : TimedRun(o)

OpSpec == OpInit /\ [][OpNext]_<<vars, aux>>

\* ------------------------------------------------------------- lfsverify
\* strings.TrimSpace on a line
RECURSIVE TrimLeft(_)
TrimLeft(line) ==
    IF line # <<>> /\ Head(line) \in {9, 10, 13, 32} THEN TrimLeft(Tail(line)) ELSE line

RECURSIVE TrimRight(_)
TrimRight(line) ==
    IF line # <<>> /\ line[Len(line)] \in {9, 10, 13, 32}
    THEN TrimRight(SubSeq(line, 1, Len(line) - 1)) ELSE line

\* getLFSTrackedFiles on the lines git lfs ls-files -n printed: each line
\* trimmed, empty lines dropped
RECURSIVE TrackedFiles(_)
TrackedFiles(lines) ==
    IF lines = <<>> THEN <<>>
    ELSE LET line == TrimRight(TrimLeft(Head(lines)))
         IN IF line # <<>> THEN <<line>> \o TrackedFiles(Tail(lines))
            ELSE TrackedFiles(Tail(lines))

\* trackedMap[f] = true for every listed file
TrackedMap(trackedFiles) == {trackedFiles[i] : i \in DOMAIN trackedFiles}


VerifyLFSPointersNeverFails(ls, files) == [err |-> FALSE, failed |-> "", named |-> <<>>]

\* VerifyLFSPointers: nil, or an error and the paths its message lists
VerifyLFSPointers(ls, files) ==
    IF ls.err THEN [err |-> TRUE, failed |-> "ls-files", named |-> <<>>]
    ELSE LET trackedMap == TrackedMap(TrackedFiles(ls.lines))
             notTracked == SelectSeq(files, LAMBDA f : f \notin trackedMap)
         IN IF Len(notTracked) > 0
            THEN [err |-> TRUE, failed |-> "not tracked", named |-> notTracked]
            ELSE [err |-> FALSE, failed |-> "", named |-> <<>>]

\* VerifyNotLFSPointers: an error of git lfs ls-files is taken as "no files
\* tracked", and nil returned
VerifyNotLFSPointers(ls, files) ==
    IF ls.err THEN [err |-> FALSE, failed |-> "", named |-> <<>>]
    ELSE LET trackedMap == TrackedMap(TrackedFiles(ls.lines))
             stillTracked == SelectSeq(files, LAMBDA f : f \in trackedMap)
         IN IF Len(stillTracked) > 0
            THEN [err |-> TRUE, failed |-> "still tracked", named |-> stillTracked]
            ELSE [err |-> FALSE, failed |-> "", named |-> <<>>]

\* VerifyRepositorySizes: dirSize of .git/objects, countLFSObjects, then
\* if lfsObjectsSize > 0 && gitObjectsSize > lfsObjectsSize { return error }
VerifyRepositorySizes(sizes) ==
    IF sizes.gitErr THEN [err |-> TRUE, failed |-> "git objects", named |-> <<>>]
    ELSE IF sizes.lfsErr THEN [err |-> TRUE, failed |-> "LFS objects", named |-> <<>>]
    ELSE IF sizes.lfs > 0 /\ sizes.git > sizes.lfs
    THEN [err |-> TRUE, failed |-> "sizes", named |-> <<>>]
    ELSE [err |-> FALSE, failed |-> "", named |-> <<>>]

\* what git lfs ls-files -n does: an error, or lines printed
ListingLines == {<<97>>, <<98>>, <<32, 97, 13>>, <<>>}
Listings ==
    {[err |-> TRUE, lines |-> <<>>]}
    \cup {[err |-> FALSE, lines |-> l] :
             l \in {<<>>} \cup {<<x>> : x \in ListingLines}
                          \cup {<<x, y>> : x \in ListingLines, y \in ListingLines}}

VerifyInit ==
    /\ MainInit
    /\ DownloadIdle
    /\ ClockIdle
    /\ SharedIdle
    /\ AtomicIdle
    /\ RunCmdIdle
    /\ PhasesIdle
    /\ DiffIdle
    /\ TwiceIdle
    /\ OpIdle
    /\ Step4Idle
    /\ RoundTripIdle
    /\ StoreIdle
    /\ SubmitIdle
    /\ WalkIdle
    /\ vin \in [set : {TRUE},
                files : {<<>>, <<PathA>>, <<PathB>>, <<PathA, PathB>>, <<PathB, PathA>>},
                ls : Listings,
                sizes : [git : 0..2, lfs : 0..2, gitErr : BOOLEAN, lfsErr : BOOLEAN]]
    /\ vout = [done |-> FALSE]

VerifyUnchanged == UNCHANGED <<vars, dvars, nvars, kvars, uvars, avars, lvars, hvars, tvars, gvars, pvars, jvars, svars, mvars, wvars, vin>>

\* a phase calls VerifyLFSPointers on its repository
CallVerifyLFSPointers ==
    /\ ~vout.done
    /\ vout' = [done |-> TRUE, fn |-> "VerifyLFSPointers", ret |-> VerifyLFSPointers(vin.ls, vin.files),
                phase |-> "none"]
    /\ VerifyUnchanged

\* Step7_Untrack from the verification on: VerifyNotLFSPointers, its error
\* returned; then the final snapshot computed and stored, ok or not
CallVerifyNotLFSPointers(snapshotOk) ==
    LET ret == VerifyNotLFSPointers(vin.ls, vin.files)
    IN /\ ~vout.done
       /\ vout' = [done |-> TRUE, fn |-> "VerifyNotLFSPointers", ret |-> ret,
                   phase |-> IF ret.err \/ ~snapshotOk THEN "err" ELSE "ok"]
       /\ VerifyUnchanged

\* a phase calls VerifyRepositorySizes on its repository
CallVerifyRepositorySizes ==
    /\ ~vout.done
    /\ vout' = [done |-> TRUE, fn |-> "VerifyRepositorySizes", ret |-> VerifyRepositorySizes(vin.sizes),
                phase |-> "none"]
    /\ VerifyUnchanged

VerifyNext ==
    \/ CallVerifyLFSPointers
    \/ \E b \in BOOLEAN : CallVerifyNotLFSPointers(b)
    \/ CallVerifyRepositorySizes

VerifySpec == VerifyInit /\ [][VerifyNext]_<<vars, aux>>

\* ------------------------------------------- the phases and their snapshots
\* phases that return without a snapshot
AfterWithoutSnapshot(k, at) == IF at = "work" /\ k = NumSteps THEN "verify" ELSE "return"

\* where a phase goes on after a part of it succeeded: phases 2 and 4 verify
\* after their snapshot, phase 4 compares before, phase 7 verifies first
After(k, at) ==
    IF at = "work" THEN (IF k = NumSteps THEN "verify" ELSE "snapshot")
    ELSE IF at = "snapshot"
    THEN (IF k = 4 THEN "compare" ELSE IF k = 2 THEN "verify" ELSE "return")
    ELSE IF at = "compare" THEN "verify"
    ELSE (IF k = NumSteps THEN "snapshot" ELSE "return")

\* return fmt.Errorf(...) of a phase
Fail(pc, cause) == [pc EXCEPT !.at = "failed", !.cause = cause]

\* Step6_FirstClientPull up to its snapshot: nothing is pulled, and every
\* message about it is inside if r.Debug
Step6Messages(scn) ==
    IF ~scn.debug THEN {}
    ELSE IF ~scn.local /\ scn.url THEN {"Skipping pull - remote not yet configured"}
    ELSE IF scn.local THEN {"Skipping local pull - requires bare repo setup"}
    ELSE {}

\* Step6_FirstClientPull after its snapshot: nothing is compared
Step6Note(scn) ==
    IF scn.debug THEN {"Note: Checksum comparison with step 5 requires working pull"}
    ELSE {}

PhasesInit ==
    /\ MainInit
    /\ DownloadIdle
    /\ ClockIdle
    /\ SharedIdle
    /\ AtomicIdle
    /\ RunCmdIdle
    /\ DiffIdle
    /\ VerifyIdle
    /\ TwiceIdle
    /\ OpIdle
    /\ Step4Idle
    /\ RoundTripIdle
    /\ StoreIdle
    /\ SubmitIdle
    /\ WalkIdle
    /\ hscn \in [set : {TRUE}, debug : BOOLEAN, local : BOOLEAN, url : BOOLEAN]
    /\ hpc = [step |-> 0, at |-> "loop", cause |-> "", ok |-> {}]
    /\ hstored = <<>>
    /\ hlog = {}
    /\ hret = [kind |-> "none", step |-> 0, status |-> "running"]

PhasesUnchanged == UNCHANGED <<vars, dvars, nvars, kvars, uvars, avars, lvars, vvars, tvars, gvars, pvars, jvars, svars, mvars, wvars, hscn>>

\* for i, step := range steps { stepNum := i + 1; ... step()
PhaseStart ==
    /\ hpc.at = "loop"
    /\ hpc.step < NumSteps
    /\ hpc' = [step |-> hpc.step + 1, at |-> "work", cause |-> "", ok |-> hpc.ok]
    /\ UNCHANGED <<hstored, hlog, hret>>
    /\ PhasesUnchanged

\* the phase up to its snapshot: the files it copies and the git commands it
\* runs (phase 4 first needs a URL to clone from; phase 6 does nothing that
\* can fail)
PhaseWork(ok) ==
    /\ hpc.at = "work"
    /\ hpc.step = 6 => ok
    /\ hpc' = IF hpc.step = 4 /\ ~hscn.local /\ ~hscn.url THEN Fail(hpc, "no remote URL")
              ELSE IF ~ok THEN Fail(hpc, "command")
              ELSE [hpc EXCEPT !.at = After(hpc.step, "work")]
    /\ hlog' = IF hpc.step = 6 THEN hlog \cup Step6Messages(hscn)
               ELSE IF hpc.step = 4 /\ (hscn.local \/ hscn.url) THEN hlog \cup {"git clone"}
               ELSE hlog
    /\ UNCHANGED <<hstored, hret>>
    /\ PhasesUnchanged

\* checksum.ComputeDirectory, then checksum.StoreChecksums(r.DB, r.RunID, k,
\* checksums): one INSERT per fingerprint, the first error returned (rows:
\* an insert succeeded before that)
PhaseSnapshot(computeOk, storeOk, rows) ==
    /\ hpc.at = "snapshot"
    /\ storeOk => rows
    /\ hstored' = IF computeOk /\ rows
                  THEN Append(hstored, [step |-> hpc.step, complete |-> storeOk])
                  ELSE hstored
    /\ hpc' = IF ~computeOk THEN Fail(hpc, "compute")
              ELSE IF ~storeOk THEN Fail(hpc, "store")
              ELSE [hpc EXCEPT !.at = After(hpc.step, "snapshot")]
    /\ hlog' = IF hpc.step = 6 /\ computeOk /\ storeOk THEN hlog \cup Step6Note(hscn) ELSE hlog
    /\ UNCHANGED hret
    /\ PhasesUnchanged

\* Step4_SecondClone: checksum.CompareChecksums(r.DB, r.RunID, 3, 4)
PhaseCompare(readOk, same) ==
    /\ hpc.at = "compare"
    /\ hpc' = IF ~readOk THEN Fail(hpc, "compare")
              ELSE IF ~same THEN Fail(hpc, "mismatch")
              ELSE [hpc EXCEPT !.at = After(hpc.step, "compare")]
    /\ UNCHANGED <<hstored, hlog, hret>>
    /\ PhasesUnchanged

\* the integrity checks of phases 2 and 4 (the expected files, then
\* VerifyLFSPointers, VerifyLFSObjects, VerifyRepositorySizes) and of phase 7
\* (VerifyNotLFSPointers): the first error is returned
PhaseVerify(filesOk, pointersOk, objectsOk, sizesOk) ==
    /\ hpc.at = "verify"
    /\ hpc' = IF ~filesOk THEN Fail(hpc, "test files")
              ELSE IF ~pointersOk
              THEN Fail(hpc, IF hpc.step = NumSteps THEN "still tracked" ELSE "pointers")
              ELSE IF hpc.step # NumSteps /\ ~objectsOk THEN Fail(hpc, "objects")
              ELSE IF hpc.step # NumSteps /\ ~sizesOk THEN Fail(hpc, "sizes")
              ELSE [hpc EXCEPT !.at = After(hpc.step, "verify")]
    /\ UNCHANGED <<hstored, hlog, hret>>
    /\ PhasesUnchanged

\* step() has returned: on an error Execute marks the run failed (the error
\* of UpdateTestRun discarded), cleans up and returns "step k failed"; after
\* phase 7 it marks the run completed
PhaseReturned(dbOk) ==
    /\ hpc.at \in {"return", "failed"}
    /\ LET to == AfterStep(hpc.step, hpc.at = "return")
       IN /\ hpc' = [hpc EXCEPT !.at = IF to = "loop" THEN "loop" ELSE "exited",
                                 !.ok = IF hpc.at = "return" THEN @ \cup {hpc.step} ELSE @]
          /\ hret' = IF to = "markFailed"
                     THEN [kind |-> "step", step |-> hpc.step,
                           status |-> IF dbOk THEN "failed" ELSE hret.status]
                     ELSE IF to = "markCompleted"
                     THEN [kind |-> IF dbOk THEN "ok" ELSE "update", step |-> 0,
                           status |-> IF dbOk THEN "completed" ELSE hret.status]
                     ELSE hret
    /\ UNCHANGED <<hstored, hlog>>
    /\ PhasesUnchanged

PhasesNext ==
    \/ PhaseStart
    \/ \E ok \in BOOLEAN : PhaseWork(ok)
    \/ \E computeOk \in BOOLEAN, storeOk \in BOOLEAN, rows \in BOOLEAN :
           PhaseSnapshot(computeOk, storeOk, rows)
    \/ \E readOk \in BOOLEAN, same \in BOOLEAN : PhaseCompare(readOk, same)
    \/ \E f \in BOOLEAN, p \in BOOLEAN, o \in BOOLEAN, s \in BOOLEAN : PhaseVerify(f, p, o, s)
    \/ \E dbOk \in BOOLEAN : PhaseReturned(dbOk)

PhasesSpec == PhasesInit /\ [][PhasesNext]_<<vars, aux>>

\* ---------------------------------------------------------------- lfst-run
\* a completion time written before the commands of this section run
Earlier == "earlier"

\* if *notes != "" { run.Notes += " | " + *notes }
AddNotes(run, notes) ==
    IF notes # "" THEN [run EXCEPT !.Notes = Append(@, <<notes, 0>>)] ELSE run

\* handleUpdate: run.Status = *status; if *status != "running" &&
\* run.CompletedAt == nil { run.CompletedAt = &now }
SetStatus(run, status) ==
    IF status = "" THEN run
    ELSE [run EXCEPT !.Status = status,
                     !.CompletedAt = IF status # "running" /\ @ = Nil THEN Now ELSE @]

\* the rows a store can hold when a command of lfst-run starts: Execute
\* leaves completed_at NULL, handleCancel and lfst-run set it
RunCmdInit ==
    /\ MainInit
    /\ DownloadIdle
    /\ ClockIdle
    /\ SharedIdle
    /\ AtomicIdle
    /\ DiffIdle
    /\ PhasesIdle
    /\ VerifyIdle
    /\ TwiceIdle
    /\ OpIdle
    /\ Step4Idle
    /\ RoundTripIdle
    /\ StoreIdle
    /\ SubmitIdle
    /\ WalkIdle
    /\ lruns \in [RunIds -> {NoRow}
                    \cup [status : {"running"}, pid : {0, 1}, completedAt : {Nil},
                          notes : {<<NoteAuto>>}]
                    \cup [status : Terminal, pid : {0, 1}, completedAt : {Nil, Earlier},
                          notes : {<<NoteAuto>>}]]
    /\ lcount = 0
    /\ llast = [cmd |-> "none", exit |-> 0]

RunCmdUnchanged == UNCHANGED <<vars, dvars, nvars, kvars, uvars, avars, hvars, vvars, tvars, gvars, pvars, jvars, svars, mvars, wvars>>

\* handleComplete and handleFail: now := time.Now(); run.CompletedAt = &now;
\* run.Status = to, whatever the status was; then the notes
Finished(run, to, notes) ==
    AddNotes([run EXCEPT !.CompletedAt = Now, !.Status = to], notes)

\* lfst-run complete <id> [--notes ...]
handleComplete(id, notes, dbOk) ==
    /\ lcount < MaxCalls
    /\ lcount' = lcount + 1
    /\ IF lruns[id].status = "none"
       THEN /\ llast' = [cmd |-> "complete", exit |-> 1]
            /\ lruns' = lruns
       ELSE LET run == Finished(GetTestRun(lruns, id), "completed", notes)
            IN /\ lruns' = IF dbOk THEN UpdateTestRun(lruns, run) ELSE lruns
               /\ llast' = [cmd |-> "complete", exit |-> IF dbOk THEN 0 ELSE 1]
    /\ RunCmdUnchanged

\* lfst-run fail <id> [--notes ...]
handleFail(id, notes, dbOk) ==
    /\ lcount < MaxCalls
    /\ lcount' = lcount + 1
    /\ IF lruns[id].status = "none"
       THEN /\ llast' = [cmd |-> "fail", exit |-> 1]
            /\ lruns' = lruns
       ELSE LET run == Finished(GetTestRun(lruns, id), "failed", notes)
            IN /\ lruns' = IF dbOk THEN UpdateTestRun(lruns, run) ELSE lruns
               /\ llast' = [cmd |-> "fail", exit |-> IF dbOk THEN 0 ELSE 1]
    /\ RunCmdUnchanged

\* lfst-run update <id> [--notes ...] [--status running|completed|failed]
handleUpdate(id, notes, status, dbOk) ==
    /\ lcount < MaxCalls
    /\ lcount' = lcount + 1
    /\ IF lruns[id].status = "none"
          \/ status \notin {"", "running", "completed", "failed"}
          \/ (notes = "" /\ status = "")
       THEN /\ llast' = [cmd |-> "update", exit |-> 1]
            /\ lruns' = lruns
       ELSE LET run == SetStatus(AddNotes(GetTestRun(lruns, id), notes), status)
            IN /\ lruns' = IF dbOk THEN UpdateTestRun(lruns, run) ELSE lruns
               /\ llast' = [cmd |-> "update", exit |-> IF dbOk THEN 0 ELSE 1]
    /\ RunCmdUnchanged

RunCmdNext ==
    \E id \in RunIds, notes \in {"", "note"}, dbOk \in BOOLEAN :
        \/ handleComplete(id, notes, dbOk)
        \/ handleFail(id, notes, dbOk)
        \/ \E status \in {"", "running", "completed", "failed", "cancelled"} :
               handleUpdate(id, notes, status, dbOk)

RunCmdSpec == RunCmdInit /\ [][RunCmdNext]_<<vars, aux>>

\* ------------------------------------------- snapshots and failing inserts
\* StoreChecksums and the loop of ImportJSON when db.CreateChecksum fails at
\* the failAt-th fingerprint (0: at none): the rows before it are inserted,
\* each by a statement of its own, and the error is returned
CreateChecksums(table, run, step, checksums, failAt) ==
    IF failAt \in DOMAIN checksums
    THEN [table |-> StoreChecksums(table, run, step, SubSeq(checksums, 1, failAt - 1)),
          ret |-> "err"]
    ELSE [table |-> StoreChecksums(table, run, step, checksums), ret |-> "ok"]

AtomicInit ==
    /\ MainInit
    /\ DownloadIdle
    /\ ClockIdle
    /\ SharedIdle
    /\ DiffIdle
    /\ RunCmdIdle
    /\ PhasesIdle
    /\ VerifyIdle
    /\ TwiceIdle
    /\ OpIdle
    /\ Step4Idle
    /\ RoundTripIdle
    /\ StoreIdle
    /\ SubmitIdle
    /\ WalkIdle
    /\ atable = <<>>
    /\ alast = [ret |-> "none"]

AtomicUnchanged == UNCHANGED <<vars, dvars, nvars, kvars, uvars, lvars, hvars, vvars, tvars, gvars, pvars, jvars, svars, mvars, wvars>>

\* checksum.StoreChecksums(db, SnapRun, step, checksums) on the files f
StoreCall(step, f, failAt) ==
    LET out == CreateChecksums(atable, SnapRun, step, FileChecksums(f), failAt)
    IN /\ alast.ret = "none"
       /\ atable' = out.table
       /\ alast' = [ret |-> out.ret, fn |-> "StoreChecksums", step |-> step,
                    checksums |-> FileChecksums(f)]
       /\ AtomicUnchanged

\* checksum.ImportJSON(db, data) on the export of the files f
ImportCall(step, f, failAt) ==
    LET export == Unmarshal(ExportJSON(SnapRun, step, FileChecksums(f)))
        out == CreateChecksums(atable, export.RunID, export.StepNumber, export.Checksums, failAt)
    IN /\ alast.ret = "none"
       /\ atable' = out.table
       /\ alast' = [ret |-> out.ret, fn |-> "ImportJSON", step |-> step,
                    checksums |-> export.Checksums]
       /\ AtomicUnchanged

AtomicNext ==
    \E step \in {OldStep, NewStep}, f \in RecordTrees, failAt \in 0..2 :
        \/ StoreCall(step, f, failAt)
        \/ ImportCall(step, f, failAt)

AtomicSpec == AtomicInit /\ [][AtomicNext]_<<vars, aux>>

\* ------------------------------------------------- one machine, two runs
\* Two invocations of lfst-scenario and one of lfst-scenario --cancel on one
\* machine: nothing keeps a second Execute from starting while the first
\* runs, the kernel gives the pid of an ended process to a later one, and
\* the work directory is the configured one unless --work-dir is given.
BothRuns == {1, 2}
Pids == {101, 102}
NoProcess == [kind |-> "none", run |-> 0]
Unrelated == [kind |-> "unrelated", run |-> 0]
Orchestrator(r) == [kind |-> "lfst-scenario", run |-> r]

SharedInit ==
    /\ MainInit
    /\ DownloadIdle
    /\ ClockIdle
    /\ DiffIdle
    /\ AtomicIdle
    /\ RunCmdIdle
    /\ PhasesIdle
    /\ VerifyIdle
    /\ TwiceIdle
    /\ OpIdle
    /\ Step4Idle
    /\ RoundTripIdle
    /\ StoreIdle
    /\ SubmitIdle
    /\ WalkIdle
    /\ uruns = [r \in BothRuns |-> NoRow]
    /\ uorch = [r \in BothRuns |-> [pc |-> "idle", pid |-> 0, wd |-> DefaultWorkDir]]
    /\ uprocs = [p \in Pids |-> NoProcess]
    /\ udirs = [w \in WorkDirs |-> [d \in Repos |-> FALSE]]
    /\ ucancel = [pc |-> "idle"]
    /\ usignals = {}

SharedUnchanged == UNCHANGED <<vars, dvars, nvars, kvars, avars, lvars, hvars, vvars, tvars, gvars, pvars, jvars, svars, mvars, wvars>>

\* the process of orchestrator r ends: its pid is free again
Exit(procs, orch, r) == [procs EXCEPT ![orch[r].pid] = NoProcess]

\* lfst-scenario is started with pid p and work directory w: NewRunner,
\* Execute creates the run (PID: os.Getpid(), Status: "running") and phase 1
\* creates repo1
SharedExecute(r, p, w) ==
    /\ uorch[r].pc = "idle"
    /\ \A q \in BothRuns : q < r => uorch[q].pc # "idle"
    /\ uprocs[p] = NoProcess
    /\ uprocs' = [uprocs EXCEPT ![p] = Orchestrator(r)]
    /\ uorch' = [uorch EXCEPT ![r] = [pc |-> "phases", pid |-> p, wd |-> w]]
    /\ uruns' = CreateTestRun(uruns, r, [ID |-> r, PID |-> p, Status |-> "running",
                                         CompletedAt |-> Nil, Notes |-> <<NoteAuto>>])
    /\ udirs' = MakeRepo(udirs, w, "repo1")
    /\ UNCHANGED <<ucancel, usignals>>
    /\ SharedUnchanged

\* Step4_SecondClone: git clone creates repo2
SharedClone(r) ==
    /\ uorch[r].pc = "phases"
    /\ udirs' = MakeRepo(udirs, uorch[r].wd, "repo2")
    /\ UNCHANGED <<uruns, uorch, uprocs, ucancel, usignals>>
    /\ SharedUnchanged

\* a phase fails (here the first): Execute marks the run failed, r.cleanup()
\* removes r.RepoDir and r.Repo2Dir, and the process exits
SharedFail(r, dbOk, ok1, ok2) ==
    /\ uorch[r].pc = "phases"
    /\ uruns' = IF dbOk THEN UpdateTestRun(uruns, FailedRun(GetTestRun(uruns, r), 1)) ELSE uruns
    /\ udirs' = RemoveRepo(RemoveRepo(udirs, uorch[r].wd, "repo1", ok1), uorch[r].wd, "repo2", ok2)
    /\ uorch' = [uorch EXCEPT ![r].pc = "exited"]
    /\ uprocs' = Exit(uprocs, uorch, r)
    /\ UNCHANGED <<ucancel, usignals>>
    /\ SharedUnchanged

\* the orchestrator is ended from outside (no handler is installed): the run
\* keeps status running and the pid of a process that is gone
SharedInterrupt(r) ==
    /\ uorch[r].pc = "phases"
    /\ uorch' = [uorch EXCEPT ![r].pc = "exited"]
    /\ uprocs' = Exit(uprocs, uorch, r)
    /\ UNCHANGED <<uruns, udirs, ucancel, usignals>>
    /\ SharedUnchanged

\* some other program is started and gets a free pid
SharedSpawn(p) ==
    /\ uprocs[p] = NoProcess
    /\ uprocs' = [uprocs EXCEPT ![p] = Unrelated]
    /\ UNCHANGED <<uruns, uorch, udirs, ucancel, usignals>>
    /\ SharedUnchanged

\* lfst-scenario --cancel <id> [--work-dir w]: the run is read; unless its
\* status is running nothing is done
SharedCancelStart(id, w) ==
    /\ ucancel.pc = "idle"
    /\ uruns[id].status # "none"
    /\ Cancellable(GetTestRun(uruns, id))
    /\ ucancel' = [pc |-> "signal", run |-> GetTestRun(uruns, id), wd |-> w]
    /\ UNCHANGED <<uruns, uorch, uprocs, udirs, usignals>>
    /\ SharedUnchanged

\* os.FindProcess(run.PID); process.Signal(SIGTERM), after two seconds
\* Signal(0) and process.Kill(): whatever process has that pid is ended
SharedCancelSignal ==
    /\ ucancel.pc = "signal"
    /\ LET pid == ucancel.run.PID
           hit == IF pid > 0 THEN uprocs[pid] ELSE NoProcess
       IN /\ usignals' = IF hit # NoProcess
                         THEN usignals \cup {[run |-> ucancel.run.ID, pid |-> pid, process |-> hit]}
                         ELSE usignals
          /\ uprocs' = IF hit # NoProcess THEN [uprocs EXCEPT ![pid] = NoProcess] ELSE uprocs
          /\ uorch' = IF hit.run \in BothRuns THEN [uorch EXCEPT ![hit.run].pc = "exited"] ELSE uorch
    /\ ucancel' = [ucancel EXCEPT !.pc = "dirs"]
    /\ UNCHANGED <<uruns, udirs>>
    /\ SharedUnchanged

\* repo1 and repo2 under the canceller's workDir are removed
SharedCancelRemove(ok1, ok2) ==
    /\ ucancel.pc = "dirs"
    /\ udirs' = RemoveRepo(RemoveRepo(udirs, ucancel.wd, "repo1", ok1), ucancel.wd, "repo2", ok2)
    /\ ucancel' = [ucancel EXCEPT !.pc = "mark"]
    /\ UNCHANGED <<uruns, uorch, uprocs, usignals>>
    /\ SharedUnchanged

\* the run is marked cancelled and handleCancel returns
SharedCancelMark(dbOk) ==
    /\ ucancel.pc = "mark"
    /\ uruns' = IF dbOk THEN UpdateTestRun(uruns, CancelledRun(ucancel.run, Now)) ELSE uruns
    /\ ucancel' = [pc |-> "idle"]
    /\ UNCHANGED <<uorch, uprocs, udirs, usignals>>
    /\ SharedUnchanged

SharedNext ==
    \/ \E r \in BothRuns, p \in Pids, w \in WorkDirs : SharedExecute(r, p, w)
    \/ \E r \in BothRuns : SharedClone(r)
    \/ \E r \in BothRuns, dbOk \in BOOLEAN, ok1 \in BOOLEAN, ok2 \in BOOLEAN :
           SharedFail(r, dbOk, ok1, ok2)
    \/ \E r \in BothRuns : SharedInterrupt(r)
    \/ \E p \in Pids : SharedSpawn(p)
    \/ \E id \in BothRuns, w \in WorkDirs : SharedCancelStart(id, w)
    \/ SharedCancelSignal
    \/ \E ok1 \in BOOLEAN, ok2 \in BOOLEAN : SharedCancelRemove(ok1, ok2)
    \/ \E dbOk \in BOOLEAN : SharedCancelMark(dbOk)

SharedSpec == SharedInit /\ [][SharedNext]_<<vars, aux>>

\* --------------------------------------------------------------- timestamps
MaxTime == 5

\* the zero value of time.Time, which the TestRun literal of Execute leaves
\* in StartedAt
ZeroTime == 0

ClockInit ==
    /\ MainInit
    /\ DownloadIdle
    /\ DiffIdle
    /\ SharedIdle
    /\ AtomicIdle
    /\ RunCmdIdle
    /\ PhasesIdle
    /\ VerifyIdle
    /\ TwiceIdle
    /\ OpIdle
    /\ Step4Idle
    /\ RoundTripIdle
    /\ StoreIdle
    /\ SubmitIdle
    /\ WalkIdle
    /\ kclock = 1
    /\ krun = [created |-> FALSE]
    /\ kops = <<>>

ClockUnchanged == UNCHANGED <<vars, dvars, nvars, uvars, avars, lvars, hvars, vvars, tvars, gvars, pvars, jvars, svars, mvars, wvars>>

\* time passes
ClockTick ==
    /\ kclock < MaxTime
    /\ kclock' = kclock + 1
    /\ UNCHANGED <<krun, kops>>
    /\ ClockUnchanged

\* run := &database.TestRun{...}: no StartedAt; r.DB.CreateTestRun(run)
\* inserts run.StartedAt.Format(time.RFC3339)
ClockCreateTestRun ==
    /\ ~krun.created
    /\ krun' = [created |-> TRUE, at |-> kclock, StartedAt |-> ZeroTime]
    /\ UNCHANGED <<kclock, kops>>
    /\ ClockUnchanged

\* a phase of the run has run a command for d units of time and records it:
\* StartedAt: time.Now().Add(-DurationMs)
ClockRecordOperation(d) ==
    /\ krun.created
    /\ Len(kops) < MaxCalls
    /\ kclock - d >= krun.at
    /\ kops' = Append(kops, kclock - d)
    /\ UNCHANGED <<kclock, krun>>
    /\ ClockUnchanged

ClockNext ==
    \/ ClockTick
    \/ ClockCreateTestRun
    \/ \E d \in 0..MaxTime : ClockRecordOperation(d)

ClockSpec == ClockInit /\ [][ClockNext]_<<vars, aux>>

\* ------------------------------------------------------------ DownloadFile
\* const maxRetries = 5
maxRetries == 5

\* the body of the response with status 200: the bytes of "ok" and a newline
Body == <<111, 107, 10>>

NoFile == [exists |-> FALSE, data |-> <<>>]

\* io.Copy(out, resp.Body) that ends after n bytes: written where the file
\* offset of out stands, which is after everything written to it before
Copy(out, n) == [out EXCEPT !.data = @ \o SubSeq(Body, 1, n)]

\* the destination is there already, or not
DownloadInit ==
    /\ MainInit
    /\ DiffIdle
    /\ ClockIdle
    /\ SharedIdle
    /\ AtomicIdle
    /\ RunCmdIdle
    /\ PhasesIdle
    /\ VerifyIdle
    /\ TwiceIdle
    /\ OpIdle
    /\ Step4Idle
    /\ RoundTripIdle
    /\ StoreIdle
    /\ SubmitIdle
    /\ WalkIdle
    /\ nfiles \in [set : {TRUE}, dest : {NoFile, [exists |-> TRUE, data |-> Body]},
                   temp : {NoFile}]
    /\ npc = [at |-> "start", attempt |-> 0]
    /\ nret = [done |-> FALSE]

DownloadUnchanged == UNCHANGED <<vars, dvars, kvars, uvars, avars, lvars, hvars, vvars, tvars, gvars, pvars, jvars, svars, mvars, wvars>>

\* os.Stat(destPath); os.MkdirAll(dir); out := os.Create(destPath + ".download")
DownloadCreate(mkdirOk, createOk) ==
    /\ npc.at = "start"
    /\ IF nfiles.dest.exists
       THEN /\ nret' = [done |-> TRUE, present |-> TRUE, err |-> "nil"]
            /\ npc' = [npc EXCEPT !.at = "returned"]
            /\ nfiles' = nfiles
       ELSE IF ~mkdirOk \/ ~createOk
       THEN /\ nret' = [done |-> TRUE, present |-> FALSE,
                        err |-> IF ~mkdirOk THEN "failed to create directory"
                                ELSE "failed to create file"]
            /\ npc' = [npc EXCEPT !.at = "returned"]
            /\ nfiles' = nfiles
       ELSE /\ nfiles' = [nfiles EXCEPT !.temp = [exists |-> TRUE, data |-> <<>>]]
            /\ npc' = [at |-> "loop", attempt |-> 1]
            /\ nret' = nret
    /\ DownloadUnchanged

\* one pass of for attempt := 1; attempt <= maxRetries; attempt++: client.Get
\* fails, or the status is not 200, or io.Copy ends with an error after n
\* bytes (continue), or all is copied and the file renamed
DownloadAttempt(outcome, n, renameOk) ==
    /\ npc.at = "loop"
    /\ npc.attempt <= maxRetries
    /\ outcome = "copy error" => n < Len(Body)
    /\ IF outcome \in {"get error", "status", "copy error"}
       THEN /\ nfiles' = IF outcome = "copy error"
                         THEN [nfiles EXCEPT !.temp = Copy(@, n)] ELSE nfiles
            /\ npc' = [npc EXCEPT !.attempt = @ + 1]
            /\ nret' = nret
       ELSE LET out == Copy(nfiles.temp, Len(Body))
            IN /\ nfiles' = IF renameOk THEN [nfiles EXCEPT !.temp = NoFile, !.dest = out]
                            ELSE [nfiles EXCEPT !.temp = out]
               /\ npc' = [npc EXCEPT !.at = "returned"]
               /\ nret' = [done |-> TRUE, present |-> FALSE,
                           err |-> IF renameOk THEN "nil" ELSE "failed to rename downloaded file"]
    /\ DownloadUnchanged

\* after the loop: os.Remove(tempPath); "failed after 5 retries"
DownloadGiveUp ==
    /\ npc.at = "loop"
    /\ npc.attempt > maxRetries
    /\ nfiles' = [nfiles EXCEPT !.temp = NoFile]
    /\ npc' = [npc EXCEPT !.at = "returned"]
    /\ nret' = [done |-> TRUE, present |-> FALSE, err |-> "failed after retries"]
    /\ DownloadUnchanged

DownloadNext ==
    \/ \E mkdirOk \in BOOLEAN, createOk \in BOOLEAN : DownloadCreate(mkdirOk, createOk)
    \/ \E outcome \in {"get error", "status", "copy error", "ok"}, n \in 0..Len(Body),
          renameOk \in BOOLEAN : DownloadAttempt(outcome, n, renameOk)
    \/ DownloadGiveUp

DownloadSpec == DownloadInit /\ [][DownloadNext]_<<vars, aux>>

\* ------------------------------------------------------------------ claims
\* the orchestrator process whose Execute created run r
RunOrch(r) == CHOOSE o \in Orchs : orun[o].ID = r

\* the work directory run r was started with
RunWorkDir(r) == owd[RunOrch(r)]

\* a step in which an invocation of the cancel command begins
CancelBegins == cpc \in {"idle", "done"} /\ cvars' # cvars

\* the step in which an invocation that cancelled at least one run returns
CancelReturns == cpc = "mark" /\ cpc' = "done"

\* the invocation that begins does nothing but report "nothing to cancel"
NothingToCancel ==
    /\ runs' = runs
    /\ dirs' = dirs
    /\ opc' = opc
    /\ child' = child
    /\ cqueue' = <<>>
    /\ cpc' = "done"
    /\ cout' = "nothing"
    /\ ccount' = 0

\* C1: once the persisted status of a run is completed, failed or cancelled,
\* no step of Execute or of a cancel changes it again.
C1_TerminalStatusIsFinal ==
    [][\A r \in RunIds :
          runs[r].status \in Terminal => runs'[r].status = runs[r].status]_vars

\* C2: in every state of the store, a run whose status is completed, failed
\* or cancelled has its completion timestamp set.
C2_TerminalHasCompletedAt ==
    \A r \in RunIds : runs[r].status \in Terminal => runs[r].completedAt # Nil

\* C3: within one Execute the phases are invoked in the order 1, 2, ..., 7,
\* each at most once, and a phase is invoked only when every phase before it
\* has returned without error.
C3_PhasesInOrder ==
    \A o \in Orchs :
        /\ Len(ohist[o]) <= NumSteps
        /\ \A i \in 1..Len(ohist[o]) :
              /\ ohist[o][i].step = i
              /\ i < Len(ohist[o]) => ohist[o][i].result = "ok"

C3_Witness ==
    \E o \in Orchs :
        /\ Len(ohist[o]) = NumSteps
        /\ ohist[o][NumSteps].result = "ok"

\* C4: when Execute returns the error of a failed phase k, the persisted run
\* has status failed and its notes hold the note of the failure at phase k.
C4_FailureIsPersisted ==
    [][\A o \in Orchs :
          (opc[o] = "cleanup" /\ opc'[o] = "exited") =>
              /\ runs'[orun[o].ID].status = "failed"
              /\ InNotes(NoteFailed(ostep[o]), runs'[orun[o].ID].notes)]_vars

\* C5: a cancel by id of a run that is completed, failed or cancelled, and a
\* cancel of "all" when no run is running, signals no process, removes no
\* directory, leaves the store unchanged and ends with "nothing to cancel",
\* not with an error.
C5_NotRunningIsNoOp ==
    [][(/\ CancelBegins
        /\ \/ carg' \in RunIds /\ runs[carg'].status \in Terminal
           \/ carg' = CancelAll /\ \A r \in RunIds : runs[r].status # "running")
       => NothingToCancel]_vars

C5_Witness ==
    /\ cpc = "done"
    /\ cout = "nothing"
    /\ carg \in RunIds
    /\ runs[carg].status \in {"completed", "failed"}

C8_WorkDirsAbsentAfterCancel ==
    [][CancelReturns =>
          \A r \in ctargets : \A d \in Repos : ~dirs'[RunWorkDir(r)][d]]_vars

\* C9: when the cancel of a running run returns, neither the orchestrator
\* process of that run nor an external command it spawned is still running.
C9_ProcessTreeGoneAfterCancel ==
    [][CancelReturns =>
          \A r \in ctargets :
              /\ opc'[RunOrch(r)] \notin OrchLive
              /\ child'[RunOrch(r)] = "none"]_vars

\* C10: when the process recorded on a running run no longer exists, the
\* cancel does not end in an error: it returns having removed the working
\* directories of the run and marked the run cancelled.
C10_StaleRunIsCancelled ==
    [][CancelReturns =>
          \A r \in cstale :
              /\ cout' = "cancelled"
              /\ \A d \in Repos : ~dirs'[RunWorkDir(r)][d]
              /\ runs'[r].status = "cancelled"]_vars

\* C11: a process is ended by the forceful kill only in the step that ends
\* the grace interval of a cancel whose SIGTERM it had received, and only if
\* it was still alive then; a run becomes cancelled only in the marking step
\* of the cancel, when the signalling of its process is over and the process
\* is gone.
C11_KillAfterGraceMarkAfterSignals ==
    [][/\ \A o \in Orchs :
             (opc'[o] = "sigkilled" /\ opc[o] # "sigkilled") =>
                 /\ cpc = "grace"
                 /\ Head(cqueue).PID = OrchPid(o)
                 /\ opc[o] = "terminating"
       /\ \A r \in RunIds :
             (runs'[r].status = "cancelled" /\ runs[r].status # "cancelled") =>
                 /\ cpc = "mark"
                 /\ Head(cqueue).ID = r
                 /\ ~PidAlive(Head(cqueue).PID)]_vars

C11_Witness ==
    /\ cpc = "done"
    /\ \E r \in cmarked : opc[RunOrch(r)] = "sigkilled"

\* C12: the notes of a run are an append-only log: whatever step writes the
\* row, the notes persisted before the step are a prefix of the notes
\* persisted after it.
C12_NotesAppendOnly ==
    [][\A r \in RunIds :
          runs[r].status # "none" =>
              /\ Len(runs[r].notes) <= Len(runs'[r].notes)
              /\ SubSeq(runs'[r].notes, 1, Len(runs[r].notes)) = runs[r].notes]_vars

\* the fingerprint a snapshot with pairwise different paths holds for path p
SnapshotEntry(snapshot, p) ==
    snapshot[CHOOSE i \in DOMAIN snapshot : snapshot[i].FilePath = p]

\* the entries a diff holds for path p
DiffEntries(diffs, p) == {i \in DOMAIN diffs : diffs[i].FilePath = p}

\* C14: the diff of an old snapshot A and a new snapshot B holds exactly one
\* entry "deleted" for every path only in A, one "added" for every path only
\* in B, one "modified" (equal sizes) or "size-changed" (different sizes) for
\* every path in both with different checksums, and none for a path in both
\* with equal checksums; its entries ascend by path.
C14_DiffIsExactAndSorted ==
    dout.done =>
        /\ \A i \in DOMAIN dout.diffs, j \in DOMAIN dout.diffs :
              i < j => PathLess(dout.diffs[i].FilePath, dout.diffs[j].FilePath)
        /\ \A i \in DOMAIN dout.diffs : dout.diffs[i].FilePath \in Paths
        /\ \A p \in Paths :
              LET inA == p \in PathsOf(dold)
                  inB == p \in PathsOf(dnew)
                  es == DiffEntries(dout.diffs, p)
                  kinds == {dout.diffs[i].ChangeType : i \in es}
              IN /\ Cardinality(es) <= 1
                 /\ (inA /\ ~inB) => kinds = {"deleted"}
                 /\ (~inA /\ inB) => kinds = {"added"}
                 /\ (~inA /\ ~inB) => kinds = {}
                 /\ (inA /\ inB) =>
                        LET a == SnapshotEntry(dold, p)
                            b == SnapshotEntry(dnew, p)
                        IN IF a.CRC32 = b.CRC32 THEN kinds = {}
                           ELSE IF a.SizeBytes = b.SizeBytes THEN kinds = {"modified"}
                           ELSE kinds = {"size-changed"}

C14_Witness ==
    /\ dout.done
    /\ {dout.diffs[i].ChangeType : i \in DOMAIN dout.diffs}
           = {"deleted", "added", "size-changed"}

\* C13: phase 4 returns success only when the diff of the stored snapshots
\* 3 and 4 of the run is empty, and when there is a difference phase 4 fails
\* and the run has the status failed once Execute has ended.
C13_Step4RequiresEqualSnapshots ==
    ppc = "returned" =>
        /\ pret = "ok" => Diffs34(ptable) = {<<>>}
        /\ Snapshot4Stored /\ Diffs34(ptable) # {<<>>} =>
              /\ pret # "ok"
              /\ opc[FirstOrch] = "exited" => runs[SnapRun].status = "failed"

\* the part of C13 that is about phase 4 alone
C13_Step4ReturnsOkOnlyOnEmptyDiff ==
    ppc = "returned" =>
        /\ pret = "ok" => Diffs34(ptable) = {<<>>}
        /\ Snapshot4Stored /\ Diffs34(ptable) # {<<>>} => pret = "mismatch"

\* C15: after a snapshot has been exported to JSON and imported into a
\* store that held no fingerprints, the store lists for the run and step
\* exactly the paths, checksums and sizes of the exported snapshot.
C15_ExportImportRoundTrip ==
    jret = "ok" =>
        \A l \in ListChecksums(jtable, jreq.run, jreq.step) :
            {[Path |-> l[i].FilePath, CRC32 |-> l[i].CRC32, SizeBytes |-> l[i].SizeBytes] :
                i \in DOMAIN l}
            = {[Path |-> jreq.checksums[i].Path, CRC32 |-> Hex8(jreq.checksums[i].CRC32),
                SizeBytes |-> jreq.checksums[i].SizeBytes] : i \in DOMAIN jreq.checksums}

\* C16: no two stored fingerprints have the same run, phase and path.
C16_RunPhasePathUnique ==
    \A i \in DOMAIN stable, j \in DOMAIN stable :
        (/\ stable[i].RunID = stable[j].RunID
         /\ stable[i].StepNumber = stable[j].StepNumber
         /\ stable[i].FilePath = stable[j].FilePath) => i = j

\* the (run, step) has fingerprints in the table
Recorded(table, run, step) ==
    \E i \in DOMAIN table : table[i].RunID = run /\ table[i].StepNumber = step

\* C17: recording a (run, phase) that already has fingerprints is not
\* rejected, leaves every row the store had unchanged, and adds one row for
\* each fingerprint of the new snapshot.
C17_RerecordingIsAdditive ==
    [][(scount' = scount + 1 /\ Recorded(stable, SnapRun, slast'.step)) =>
          /\ slast'.ret = "ok"
          /\ Len(stable') = Len(stable) + Len(slast'.checksums)
          /\ SubSeq(stable', 1, Len(stable)) = stable
          /\ \A i \in DOMAIN slast'.checksums :
                LET row == stable'[Len(stable) + i]
                    cs == slast'.checksums[i]
                IN /\ row.RunID = SnapRun
                   /\ row.StepNumber = slast'.step
                   /\ row.FilePath = cs.Path
                   /\ row.CRC32 = Hex8(cs.CRC32)
                   /\ row.SizeBytes = cs.SizeBytes]_<<vars, aux>>

C17_Witness ==
    /\ scount > 1
    /\ slast.ret = "ok"
    /\ slast.checksums # <<>>
    /\ Len(stable) > Len(slast.checksums)
    /\ \A i \in DOMAIN stable : stable[i].StepNumber = slast.step

\* C18: for a submission, the decision is local when --local is given, even
\* with --remote; otherwise remote to the host of --remote when that is
\* given; otherwise remote to the configured host exactly when auto-detection
\* is enabled and the host name is known and differs from the configured
\* host; otherwise local.
C18_DispatchPrecedence ==
    (mpc \notin {"idle", "start"} /\ ~mflags.skipDatabase) =>
        /\ mflags.forceLocal => ~mmode.useRemote
        /\ (~mflags.forceLocal /\ mflags.forceRemote # "") =>
              mmode.useRemote /\ mmode.remoteHost = mflags.forceRemote
        /\ (~mflags.forceLocal /\ mflags.forceRemote = "") =>
              /\ mmode.useRemote <=>
                    /\ mflags.AutoRemote
                    /\ ~mflags.hostname.err
                    /\ mflags.hostname.name # mflags.RemoteHost
              /\ mmode.useRemote => mmode.remoteHost = mflags.RemoteHost

C18_Witness ==
    /\ mpc = "export"
    /\ ~mflags.forceLocal
    /\ mflags.forceRemote = ""
    /\ mflags.AutoRemote
    /\ mflags.hostname.name = "bear"
    /\ mmode.remoteHost = "gojira"

\* C19: in remote mode lfst-checksum exits 0 only if ssh running lfst-import
\* has exited with status 0; when the start of ssh fails, the write of the
\* data fails, or ssh exits with another status, lfst-checksum exits 1.
C19_RemoteSuccessNeedsExitZero ==
    (mmode.useRemote /\ ~mflags.skipDatabase) =>
        /\ mpc = "exit0" => rpc = "exit0"
        /\ (mpc \in {"exit0", "exit1"} /\ mfail \in {"start", "write"}) => mpc = "exit1"
        /\ (mpc \in {"exit0", "exit1"} /\ rpc \in {"exit1", "exit255"}) => mpc = "exit1"

C19_Witness ==
    /\ mmode.useRemote
    /\ mpc = "exit1"
    /\ mfail = "wait"
    /\ rpc = "exit1"
    /\ rdata = "full"

\* the files ComputeDirectory fingerprints: regular files outside .git that
\* are not named .checksums
Fingerprinted == {"a", "b"}

C21_SameTreeSameSequence ==
    \A i \in DOMAIN tresults :
        LET cs == tresults[i].checksums
        IN /\ \A j \in DOMAIN tresults : tresults[j].checksums = cs
           /\ \A k \in DOMAIN cs, l \in DOMAIN cs : k < l => PathLess(cs[k].Path, cs[l].Path)
           /\ {cs[k].Path : k \in DOMAIN cs} = DOMAIN ttree
           /\ \A k \in DOMAIN cs :
                 cs[k].CRC32 = ttree[cs[k].Path].crc /\ cs[k].SizeBytes = ttree[cs[k].Path].size

C21_Witness ==
    /\ Len(tresults) > 1
    /\ tresults[1].order # tresults[2].order
    /\ Len(tresults[1].checksums) > 1

\* C22: when a command a phase runs through git.Context cannot be started or
\* exits non-zero and the context has a store, exactly one operation with
\* status failed is appended for the run and step, and the call returns an
\* error.
C22_FailedCommandIsRecordedOnce ==
    (/\ glast.done
     /\ glast.op # "run"
     /\ gctx.DB
     /\ glast.outcome.kind = "spawn" \/ (glast.outcome.kind = "exit" /\ glast.outcome.code # 0)) =>
        /\ glast.err
        /\ Len(gops) = 1
        /\ gops[1].Status = "failed"
        /\ gops[1].RunID = gctx.RunID
        /\ gops[1].StepNumber = gctx.StepNumber

\* C23: the result of a command that could not be started has an error and an
\* ExitCode that the result of no started command has; a command that exited
\* with n # 0 has ExitCode n.
C23_SpawnFailureHasItsOwnExitCode ==
    glast.done =>
        /\ (glast.outcome.kind = "exit" /\ glast.outcome.code # 0) =>
              glast.result.ExitCode = glast.outcome.code
        /\ glast.outcome.kind = "spawn" =>
              /\ glast.result.Error.type # "nil"
              /\ \A o \in Outcomes : o.kind # "spawn" => Run(o).ExitCode # glast.result.ExitCode

\* C23, for commands that exit: the result of a command that could not be
\* started has an error and an ExitCode that the result of no command that
\* exited has, and an error of another type than every started command; a
\* command that exited with n # 0 has ExitCode n.
C23_SpawnFailureDiffersFromExits ==
    glast.done =>
        /\ (glast.outcome.kind = "exit" /\ glast.outcome.code # 0) =>
              glast.result.ExitCode = glast.outcome.code
        /\ glast.outcome.kind = "spawn" =>
              /\ glast.result.Error.type # "nil"
              /\ \A o \in Outcomes : o.kind = "exit" => Run(o).ExitCode # glast.result.ExitCode
              /\ \A o \in Outcomes : o.kind # "spawn" => Run(o).Error.type # glast.result.Error.type

C23_Witness ==
    /\ glast.done
    /\ glast.outcome.kind = "spawn"
    /\ glast.result.ExitCode = -1
    /\ glast.err

\* C24: the result of a command whose timeout elapsed differs from the
\* result of every command that was not timed out: not started, exited
\* non-zero, or ended by a signal from elsewhere.
C24_TimeoutIsDistinct ==
    (glast.done /\ glast.outcome.kind = "timeout") =>
        \A o \in Outcomes : o.kind # "timeout" => Run(o) # glast.result

\* the expected files that are absent from, or present in, what
\* getLFSTrackedFiles returned
Expected(files) == {files[i] : i \in DOMAIN files}
Listed == TrackedMap(TrackedFiles(vin.ls.lines))

\* C25 as stated: VerifyLFSPointers fails exactly when an expected path is
\* absent from the listing, and then names exactly the absent expected paths.
C25_FailsExactlyOnAbsentPaths ==
    (vout.done /\ vout.fn = "VerifyLFSPointers") =>
        /\ vout.ret.err <=> Expected(vin.files) \ Listed # {}
        /\ vout.ret.err => Expected(vout.ret.named) = Expected(vin.files) \ Listed

\* C25, with the listing obtained: VerifyLFSPointers fails exactly when an
\* expected path is absent from the listing, and then names exactly the
\* absent expected paths; an empty listing makes it name every expected path.
\* Without a listing it fails and names no path.
C25_FailsExactlyOnAbsentPathsOfListing ==
    (vout.done /\ vout.fn = "VerifyLFSPointers") =>
        /\ ~vin.ls.err =>
              /\ vout.ret.err <=> Expected(vin.files) \ Listed # {}
              /\ vout.ret.err => Expected(vout.ret.named) = Expected(vin.files) \ Listed
              /\ (Listed = {} /\ vin.files # <<>>) => vout.ret.err /\ vout.ret.named = vin.files
        /\ vin.ls.err => vout.ret.err /\ vout.ret.named = <<>>

C25_Witness ==
    /\ vout.done
    /\ vout.fn = "VerifyLFSPointers"
    /\ ~vin.ls.err
    /\ Len(vin.files) > 1
    /\ vout.ret.err
    /\ Len(vout.ret.named) = 1

\* C27: VerifyRepositorySizes returns nil only if the total size of the LFS
\* objects is not smaller than the total size of the git objects.
C27_SizesPassOnlyIfLFSNotSmaller ==
    (vout.done /\ vout.fn = "VerifyRepositorySizes" /\ ~vout.ret.err) =>
        vin.sizes.lfs >= vin.sizes.git

\* C28: VerifyNotLFSPointers returns nil, and phase 7 succeeds, only when the
\* listing was obtained and has none of the target paths.
C28_NegativeCheckNeedsListing ==
    (vout.done /\ vout.fn = "VerifyNotLFSPointers") =>
        /\ ~vout.ret.err => (~vin.ls.err /\ Expected(vin.files) \cap Listed = {})
        /\ vout.phase = "ok" => (~vin.ls.err /\ Expected(vin.files) \cap Listed = {})

\* C26: once the pointer check of a phase has failed, no StoreChecksums call
\* stores anything any more: the phase has returned its error, Execute goes
\* to no later phase and returns the error of that phase.
C26_NoSnapshotAfterPointerFailure ==
    [][hpc'.cause = "pointers" =>
          /\ hstored' = hstored
          /\ hpc'.step = hpc.step
          /\ hpc'.at \in {"failed", "exited"}
          /\ \A i \in DOMAIN hstored' : hstored'[i].step <= hpc'.step
          /\ hpc'.at = "exited" => (hret'.kind = "step" /\ hret'.step = hpc.step)]_<<vars, aux>>

C26_Witness ==
    /\ hpc.cause = "pointers"
    /\ hpc.step = 4
    /\ hpc.at = "exited"
    /\ Len(hstored) = 4

\* C29: when phase 6 returns, having pulled nothing and compared nothing, a
\* message saying that the pull was skipped and a message saying that the
\* comparison was skipped have been printed, with or without debug output.
C29_Phase6SkipIsLogged ==
    (hpc.step = 6 /\ hpc.at = "return") =>
        /\ hlog \cap {"Skipping pull - remote not yet configured",
                      "Skipping local pull - requires bare repo setup"} # {}
        /\ "Note: Checksum comparison with step 5 requires working pull" \in hlog

\* C30: when the cleanup after a failed phase k leaves a working directory
\* in place, Execute returns the error of phase k with the number k, and the
\* persisted run has status failed with the note of phase k.
C30_CleanupFailureKeepsPhaseError ==
    [][\A o \in Orchs :
          (/\ opc[o] = "cleanup"
           /\ opc'[o] = "exited"
           /\ \E d \in Repos : dirs[owd[o]][d] /\ dirs'[owd[o]][d])
          => /\ oret'[o] = [kind |-> "step", step |-> ostep[o]]
             /\ runs'[orun[o].ID].status = "failed"
             /\ InNotes(NoteFailed(ostep[o]), runs'[orun[o].ID].notes)]_vars

\* the part of C30 that is about the value Execute returns
C30_ReturnsPhaseError ==
    [][\A o \in Orchs :
          (/\ opc[o] = "cleanup"
           /\ opc'[o] = "exited"
           /\ \E d \in Repos : dirs[owd[o]][d] /\ dirs'[owd[o]][d])
          => oret'[o] = [kind |-> "step", step |-> ostep[o]]]_vars

\* C31: no command of lfst-run changes the status or the completion
\* timestamp of a run that is completed, failed or cancelled.
C31_TerminalRunIsLeftAlone ==
    [][\A id \in RunIds :
          lruns[id].status \in Terminal =>
              /\ lruns'[id].status = lruns[id].status
              /\ lruns'[id].completedAt = lruns[id].completedAt]_<<vars, aux>>

\* C32: when StoreChecksums or ImportJSON returns an error, no fingerprint
\* passed to the call is in the store.
C32_FailedSnapshotLeavesNothing ==
    alast.ret = "err" =>
        ~\E i \in DOMAIN atable, j \in DOMAIN alast.checksums :
            /\ atable[i].StepNumber = alast.step
            /\ atable[i].FilePath = alast.checksums[j].Path

\* C33: a snapshot of phase j is stored only if the phases 1 to j-1 have all
\* returned nil, and when Execute has returned nil each of the phases 1 to 7
\* has stored exactly one snapshot, by one StoreChecksums call that succeeded.
C33_SnapshotsFollowPhases ==
    /\ \A i \in DOMAIN hstored : \A k \in 1..(hstored[i].step - 1) : k \in hpc.ok
    /\ hret.kind = "ok" =>
          \A k \in 1..NumSteps :
              /\ Cardinality({i \in DOMAIN hstored : hstored[i].step = k}) = 1
              /\ \A i \in DOMAIN hstored : hstored[i].complete

C33_Witness == hret.kind = "ok" /\ Len(hstored) = NumSteps

\* run r has status running and its orchestrator is at work in directory w
Using(r, w) == uruns[r].status = "running" /\ uorch[r].pc = "phases" /\ uorch[r].wd = w

\* C34: the cancel of a run and the cleanup after a failed phase of a run
\* remove no working directory that another run with status running is
\* using.
C34_OnlyOwnDirectoriesRemoved ==
    [][\A w \in WorkDirs, d \in Repos, r \in BothRuns :
          (udirs[w][d] /\ ~udirs'[w][d] /\ Using(r, w)) =>
              \/ ucancel.pc = "dirs" /\ ucancel.run.ID = r
              \/ ucancel.pc # "dirs" /\ uorch'[r].pc = "exited"]_<<vars, aux>>

\* C35: every signal handleCancel delivers goes to the orchestrator of the
\* run it cancels.
C35_OnlyTheOrchestratorIsSignalled ==
    \A s \in usignals : s.process = Orchestrator(s.run)

\* C36: with a protocol other than local and no server URL, Execute reaches
\* no phase after phase 4, phase 4 fails before it runs git clone, and when
\* Execute has returned the run has status failed.
C36_NoUrlFailsInPhase4 ==
    (~hscn.local /\ ~hscn.url) =>
        /\ hpc.step <= 4
        /\ "git clone" \notin hlog
        /\ hpc.step = 4 => hpc.at \in {"work", "failed", "exited"}
        /\ (hpc.step = 4 /\ hpc.at = "exited") => hret.status = "failed"

\* C37: the step in which Execute returns the error of validatePrerequisites
\* changes neither the store nor any working directory nor any external
\* command and invokes no phase, and the process, having exited, does nothing
\* afterwards.
C37_FailedPrerequisitesChangeNothing ==
    [][\A o \in Orchs :
          /\ (oret[o].kind # "prereq" /\ oret'[o].kind = "prereq") =>
                 /\ opc[o] = "idle" /\ opc'[o] = "exited"
                 /\ runs' = runs /\ nextId' = nextId
                 /\ dirs' = dirs /\ child' = child
                 /\ orun'[o] = NoRun /\ ostep'[o] = 0 /\ ohist'[o] = <<>>
          /\ oret[o].kind = "prereq" =>
                 /\ opc'[o] = "exited" /\ oret'[o] = oret[o]
                 /\ orun'[o] = NoRun /\ ostep'[o] = 0 /\ ohist'[o] = <<>>
                 /\ child'[o] = "none"]_vars

C37_Witness ==
    \E o \in Orchs : oret[o].kind = "prereq" /\ opc[o] = "exited" /\ cpc = "done"

\* C38: the started_at of a run Execute created is the time at which it was
\* created, and is not later than the started_at of any operation recorded
\* for the run.
C38_RunStartsWhenCreated ==
    krun.created =>
        /\ krun.StartedAt = krun.at
        /\ \A i \in DOMAIN kops : krun.StartedAt <= kops[i]

\* C39: when DownloadFile returns (false, nil), the destination file holds
\* exactly the body of the response with status 200.
C39_DownloadedFileIsTheBody ==
    (nret.done /\ ~nret.present /\ nret.err = "nil") =>
        (nfiles.dest.exists /\ nfiles.dest.data = Body)

====
